---- MODULE Spec2Model ----
(***************************************************************************)
(* Model of the four harvest pipelines (BDjobsMaster.py, Noukri.py,        *)
(* rozee.py, JobStreet_SG.py): the per-source master dataset and its       *)
(* merge (save_to_master), the identifier store (load_existing_job_ids),   *)
(* the id harvester, the detail fetch loop, the status logic of main and   *)
(* the shared run-summary file (save_run_summary).                         *)
(*                                                                         *)
(* Strings that the code inspects character by character (Job IDs) are     *)
(* sequences of one-character strings, so that the ".0" and whitespace     *)
(* stripping of the code is computed, not assumed.                         *)
(***************************************************************************)
EXTENDS Integers, Sequences, FiniteSets, TLC

VARIABLES
    master,        \* per source: the master .xlsx file
    summaryFile,   \* per path: the run_summary.json file
    pc,            \* position of the running pipeline
    src,           \* the source whose pipeline is running
    runs,          \* number of runs (or merges) started so far
    existing_ids,  \* main: existing_ids
    existing_count,\* main: existing_count
    issues,        \* main: issues (list of messages)
    page,          \* harvester: the next listing page
    total_pages,   \* harvester: total_pages (JobStreet, Naukri)
    found,         \* harvester: ids collected so far, in discovery order
    seen,          \* every id extracted from a listing page of this run
    new_ids,       \* main: the harvester's result
    todo,          \* detail loop: ids still to fetch
    scraped_data,  \* main: scraped_data / final_data / new_jobs_to_save
    failed,        \* main: failed_job_scrapes
    ret,           \* the value save_to_master returned last
    summary,       \* the summary dict handed to save_run_summary
    saveCalls,     \* save_run_summary calls of this run
    before,        \* the master file as it was when save_to_master was called
    harvested,     \* the id harvester has returned in this run
    saved,         \* how the save_to_master call of this run ended
    exc,           \* where an exception escaped in this run
    writer,        \* per script: its save_run_summary call in progress
    answer,        \* harvester: what the last listing request answered
    backup,        \* save_to_master: what became of its backup write
    salary_str,    \* merge.py: the salary text handed to parse_local_amount
    metadata,      \* merge.py: the FILE_METADATA entry of the row's file
    multiplier,    \* parse_local_amount: multiplier
    raw_amount,    \* get_salary_in_usd: raw_amount
    usd,           \* the value get_salary_in_usd returned
    datasets,      \* merge.py: per FILE_METADATA entry, the master file it reads
    today,         \* the day of the clock (counted in years)
    merged_df,     \* convert_and_merge: the table written last
    earlier_df,    \* the table written by the run before the last
    column,        \* save_to_master: a column of the new records
    new_value,     \* the value a new record has in that column
    stored,        \* the cell of the master file written for it
    trail,         \* collect_new_rozee_jobs: the answers of the pages so far
    reporter,      \* send_summary_email.main: its position
    summaries,     \* the mapping the reporter loaded
    reports        \* the reports rendered so far

vars == <<master, summaryFile, pc, src, runs, existing_ids, existing_count,
          issues, page, total_pages, found, seen, new_ids, todo, scraped_data,
          failed, ret, summary, saveCalls, before, harvested, saved, exc,
          writer, answer, backup, salary_str, metadata, multiplier,
          raw_amount, usd, datasets, today, merged_df, earlier_df, column,
          new_value, stored, trail, reporter, summaries, reports>>

\* the variables of merge.py: of its salary functions, of convert_and_merge
salaryVars == <<salary_str, metadata, multiplier, raw_amount, usd>>
normalizerVars == <<datasets, today, merged_df, earlier_df>>
flattenVars == <<column, new_value, stored>>
\* the page history of SpecRozee and the variables of the reporter
rozeeVars == <<trail>>
reportVars == <<reporter, summaries, reports>>
tableVars == <<salaryVars, normalizerVars, flattenVars, rozeeVars, reportVars>>

(***************************************************************************)
(* Bounds of the model.                                                    *)
(***************************************************************************)
MaxRuns == 2      \* pipeline runs in one behaviour
MaxMerges == 2    \* save_to_master calls in one behaviour of SpecMerge
MaxBatch == 2     \* rows in one batch handed to save_to_master in SpecMerge
MaxPages == 2     \* listing pages a source offers in one run

Sources == {"BDJobs", "Naukri", "Rozee", "JobStreet"}

(***************************************************************************)
(* Strings.                                                                *)
(***************************************************************************)
None == <<"None">>   \* Python's None (a token no string contains)
NaN == <<"NaN">>     \* a missing cell of a DataFrame
Empty == <<>>        \* the string ""

\* str(x)
PyStr(x) == IF x = None THEN <<"N", "o", "n", "e">> ELSE x

\* Series.astype(str): a missing cell becomes the string "nan"
AsStr(c) == IF c = NaN THEN <<"n", "a", "n">> ELSE PyStr(c)

\* .str.replace(r'\.0$', '', regex=True)
StripDot0(s) ==
    IF Len(s) >= 2 /\ s[Len(s) - 1] = "." /\ s[Len(s)] = "0"
    THEN SubSeq(s, 1, Len(s) - 2)
    ELSE s

RECURSIVE LStrip(_)
LStrip(s) == IF s # <<>> /\ Head(s) = " " THEN LStrip(Tail(s)) ELSE s

RECURSIVE RStrip(_)
RStrip(s) ==
    IF s # <<>> /\ s[Len(s)] = " " THEN RStrip(SubSeq(s, 1, Len(s) - 1)) ELSE s

\* str.strip()
Strip(s) == RStrip(LStrip(s))

\* .astype(str).str.replace(r'\.0$', '', regex=True).str.strip()
CleanId(c) == Strip(StripDot0(AsStr(c)))

(***************************************************************************)
(* The master file: read_excel and to_excel.                               *)
(***************************************************************************)
NoFile == [exists |-> FALSE, ok |-> TRUE, rows |-> <<>>]
Corrupt == [exists |-> TRUE, ok |-> FALSE, rows |-> <<>>]

\* DataFrame.to_excel(MASTER_FILE): the whole file is rewritten
Written(rows) == [exists |-> TRUE, ok |-> TRUE, rows |-> rows]

\* a cell read back: "" and None were stored as an empty cell, and the text
\* "nan" is one of the parser's markers of a missing value
ReadCell(c) ==
    IF c = Empty \/ c = None \/ c = <<"n", "a", "n">> THEN NaN ELSE c

\* pd.read_excel(MASTER_FILE, ...)
ReadRows(file) ==
    [i \in 1..Len(file.rows) |->
        [id |-> ReadCell(file.rows[i].id), val |-> file.rows[i].val]]

RowIds(rows) == {rows[i].id : i \in 1..Len(rows)}

\* df['Job ID'] = df['Job ID'].astype(str)
AsStrIds(rows) ==
    [i \in 1..Len(rows) |-> [id |-> AsStr(rows[i].id), val |-> rows[i].val]]

\* df['Job ID'] = df['Job ID'].astype(str).str.replace(...).str.strip()
CleanIds(rows) ==
    [i \in 1..Len(rows) |-> [id |-> CleanId(rows[i].id), val |-> rows[i].val]]

RECURSIVE KeepIdx(_, _, _)
KeepIdx(rows, I, i) ==
    IF i > Len(rows) THEN <<>>
    ELSE (IF i \in I THEN <<rows[i]>> ELSE <<>>) \o KeepIdx(rows, I, i + 1)

\* drop_duplicates(subset=["Job ID"], keep="first")
DropDuplicatesFirst(rows) ==
    KeepIdx(rows,
            {i \in 1..Len(rows) :
                \A j \in 1..(i - 1) : rows[j].id # rows[i].id},
            1)

\* drop_duplicates(subset=["Job ID"], keep="last")
DropDuplicatesLast(rows) ==
    KeepIdx(rows,
            {i \in 1..Len(rows) :
                \A j \in (i + 1)..Len(rows) : rows[j].id # rows[i].id},
            1)

\* df[df['Job ID'].notna() & (df['Job ID'] != "")]
DropEmptyIds(rows) ==
    KeepIdx(rows, {i \in 1..Len(rows) : rows[i].id # NaN /\ rows[i].id # Empty}, 1)

(***************************************************************************)
(* save_to_master: df_combined, per source.                                *)
(***************************************************************************)
BDJobsCombined(file, batch) ==
    IF file.exists
    THEN DropDuplicatesLast(AsStrIds(ReadRows(file) \o batch))
    ELSE batch

NaukriCombined(file, batch) ==
    DropDuplicatesLast(
        CleanIds((IF file.exists THEN ReadRows(file) ELSE <<>>) \o batch))

RozeeCombined(file, batch) ==
    IF file.exists
    THEN DropDuplicatesLast(AsStrIds(ReadRows(file)) \o AsStrIds(batch))
    ELSE batch

JobStreetCombined(file, batch) ==
    DropDuplicatesLast(DropEmptyIds(
        CleanIds((IF file.exists THEN ReadRows(file) ELSE <<>>) \o batch)))

Combined(s, file, batch) ==
    CASE s = "BDJobs" -> BDJobsCombined(file, batch)
      [] s = "Naukri" -> NaukriCombined(file, batch)
      [] s = "Rozee" -> RozeeCombined(file, batch)
      [] s = "JobStreet" -> JobStreetCombined(file, batch)

\* what a failed save_to_master leaves behind and returns: -1, or (BDJobs) the
\* exception of the backup write, which no handler of save_to_master catches
SaveFailures(s, file) ==
    IF s = "BDJobs"
    THEN {[file |-> file, ret |-> -1, raised |-> FALSE, backup |-> "written"],
          [file |-> file, ret |-> -1, raised |-> TRUE, backup |-> "raised"]}
    ELSE {[file |-> file, ret |-> -1, raised |-> FALSE, backup |-> "none"]}

\* every outcome of save_to_master(batch) on `file`: the master file exists and
\* cannot be read, or the write succeeds, or the write fails and leaves the
\* file as it was or unreadable
SaveToMaster(s, file, batch) ==
    IF s # "BDJobs" /\ batch = <<>>
    THEN {[file |-> file, ret |-> 0, raised |-> FALSE, backup |-> "none"]}
    ELSE IF file.exists /\ ~file.ok
    THEN SaveFailures(s, file)
    ELSE {[file |-> Written(Combined(s, file, batch)),
           ret |-> Len(Combined(s, file, batch)),
           raised |-> FALSE, backup |-> "none"]}
         \cup SaveFailures(s, file)
         \cup SaveFailures(s, Corrupt)

(***************************************************************************)
(* The run-summary file (run_summary.json) and save_run_summary.           *)
(***************************************************************************)
\* BASE_DIR of each script: two of the four write below JobWebScrapper, the
\* other two (and the reporter) below JobData
SummaryPaths == {"JobWebScrapper", "JobData"}

SUMMARY_FILE(s) ==
    IF s \in {"BDJobs", "Naukri"} THEN "JobWebScrapper" ELSE "JobData"

\* the scraper_name each main passes to save_run_summary
DisplayName(s) ==
    CASE s = "BDJobs" -> "BDJobs"
      [] s = "Naukri" -> "Noukri.com"
      [] s = "Rozee" -> "Rozee.pk"
      [] s = "JobStreet" -> "JobStreet (SG)"

NoSummaryFile == [exists |-> FALSE, valid |-> TRUE, map |-> <<>>]
NoSummary == [status |-> "(no summary)"]

\* all_summaries[scraper_name] = summary_data
Put(map, name, data) ==
    [n \in (DOMAIN map) \cup {name} |-> IF n = name THEN data ELSE map[n]]

\* how the write of the file can end: written; open(.., 'w') raises and the
\* file is untouched; json.dump raises after the file was truncated
WriteOutcomes == {"ok", "open_fails", "partial"}

\* save_run_summary(scraper_name, summary_data) on file f with write outcome w.
\* The file that exists and does not decode raises JSONDecodeError: Noukri.py
\* catches it and starts from {}, the other three fall to the outer handler
\* and write nothing.
SaveRunSummaryFile(s, f, data, w) ==
    IF f.exists /\ ~f.valid /\ s # "Naukri"
    THEN f
    ELSE CASE w = "ok" ->
                [exists |-> TRUE, valid |-> TRUE,
                 map |-> Put(IF f.exists /\ f.valid THEN f.map ELSE <<>>,
                             DisplayName(s), data)]
           [] w = "open_fails" -> f
           [] w = "partial" -> [exists |-> TRUE, valid |-> FALSE, map |-> <<>>]

\* a script that is not inside save_run_summary, after `calls` calls
NotSaving == [pc |-> "idle", all_summaries |-> <<>>, calls |-> 0]

\* the script that writes its summary to the same file as script s
Sibling(s) ==
    CASE s = "BDJobs" -> "Naukri"
      [] s = "Naukri" -> "BDJobs"
      [] s = "Rozee" -> "JobStreet"
      [] s = "JobStreet" -> "Rozee"

\* the summary files as a run of script s can find them: none yet, or the file
\* of s holding the outcome that an earlier run of its sibling stored
StoresAtStart(s) ==
    {[p \in SummaryPaths |-> NoSummaryFile],
     [p \in SummaryPaths |->
        IF p = SUMMARY_FILE(s)
        THEN [exists |-> TRUE, valid |-> TRUE,
              map |-> Put(<<>>, DisplayName(Sibling(s)),
                          [status |-> "Completed", existing_jobs |-> 0,
                           newly_added |-> 1, new_total |-> 1, issues |-> <<>>])]
        ELSE NoSummaryFile]}

(***************************************************************************)
(* The identifier store: load_existing_job_ids.                            *)
(***************************************************************************)
Cells(file) == {ReadRows(file)[i].id : i \in 1..Len(file.rows)}

\* BDjobsMaster.py and JobStreet_SG.py: dropna, astype(str), strip ".0" and
\* whitespace, drop ""
LoadCleaned(file) ==
    IF ~file.exists \/ ~file.ok \/ file.rows = <<>>
    THEN {}
    ELSE {CleanId(c) : c \in Cells(file) \ {NaN}} \ {Empty}

\* rozee.py: astype(str) only
LoadRozee(file) ==
    IF ~file.exists \/ ~file.ok THEN {} ELSE {AsStr(c) : c \in Cells(file)}

\* Noukri.py, main step 3: astype(str) and strip ".0"
LoadNaukri(file) ==
    IF ~file.exists \/ ~file.ok
    THEN {}
    ELSE {StripDot0(AsStr(c)) : c \in Cells(file)}

load_existing_job_ids(s, file) ==
    CASE s \in {"BDJobs", "JobStreet"} -> LoadCleaned(file)
      [] s = "Rozee" -> LoadRozee(file)
      [] s = "Naukri" -> LoadNaukri(file)

(***************************************************************************)
(* The id harvester, one listing page at a time.                           *)
(***************************************************************************)
\* PAGE_SIZE (100 and 20 in the scripts) and the targets NEW_JOB_TARGET (10000)
\* and PROCESS_LIMIT (3400), scaled down to the model's listing
PAGE_SIZE == 2
Target == 2
\* PAGES_TO_SCRAPE (55), scaled down
PAGES_TO_SCRAPE == MaxPages

\* the raw identifiers a listing page can carry
ListingRaw == {<<"1">>, <<"2">>, <<"3">>}

\* math.ceil(total / size)
Ceil(total, size) == (total + size - 1) \div size

Min(a, b) == IF a < b THEN a ELSE b

\* list(a_set)[:n]: the iteration order of a set is not specified
Truncate(S, n) == {T \in SUBSET S : Cardinality(T) = Min(Cardinality(S), n)}

RECURSIVE SetToSeq(_)
SetToSeq(S) ==
    IF S = {} THEN <<>>
    ELSE LET x == CHOOSE y \in S : TRUE IN <<x>> \o SetToSeq(S \ {x})

\* what one listing request can answer: the request fails (transport error,
\* error status, body that does not decode), the body decodes and has not the
\* shape the code walks, or it carries the entries `ids` (and, on the first
\* page of JobStreet and Naukri, the total count `total`)
PageKinds(s) ==
    CASE s = "BDJobs" -> {"fail", "ok"}
      [] s = "JobStreet" -> {"fail", "bad", "ok"}
      [] s = "Naukri" -> {"fail", "status", "bad", "ok"}
      [] s = "Rozee" -> {"fail", "noparse", "bad", "ok"}

PageOutcomes(s, p) ==
    IF s = "Rozee" /\ p > MaxPages
    THEN {[kind |-> "ok", ids |-> {}, total |-> 0]}
    ELSE {[kind |-> k, ids |-> {}, total |-> 0] : k \in PageKinds(s) \ {"ok", "bad"}}
         \cup {[kind |-> k, ids |-> IF k = "ok" THEN I ELSE {}, total |-> n] :
                 k \in PageKinds(s) \cap {"ok", "bad"},
                 I \in SUBSET ListingRaw,
                 n \in IF s \in {"JobStreet", "Naukri"} /\ p = 1
                       THEN 0..(MaxPages * PAGE_SIZE) ELSE {0}}

\* the harvester's locals at the start of a harvest
StartHarvest(iss) ==
    [found |-> {}, seen |-> {}, issues |-> iss, page |-> 1, total_pages |-> 0,
     rows |-> <<>>, state |-> "more", result |-> {}]

Return(h, result) == [h EXCEPT !.state = "return", !.result = result]

NextPage(h) == [h EXCEPT !.page = @ + 1]

\* {str(job.get("id")) for job in data.get("data", []) if job.get("id")}
JobStreetIds(raw) == {PyStr(x) : x \in {y \in raw : y # None /\ y # Empty}}

\* collect_new_jobstreet_ids_until_target_met, one iteration
JobStreetPage(h, ex, o) ==
    LET crit(h1) == Return([h1 EXCEPT !.issues = Append(@, "critical")], {})
        step(h1) ==
            IF o.kind = "bad"
            THEN {crit(h1)}
            ELSE LET ids == JobStreetIds(o.ids)
                     f == h1.found \cup (ids \ ex)
                     h2 == [h1 EXCEPT !.found = f, !.seen = @ \cup ids]
                 IN  IF Cardinality(f) >= Target \/ h1.page >= h1.total_pages
                     THEN {Return(h2, T) : T \in Truncate(f, Target)}
                     ELSE {NextPage(h2)}
    IN  IF h.page = 1
        THEN IF o.kind = "fail" THEN {crit(h)}
             ELSE IF o.total = 0
             THEN {Return([h EXCEPT !.issues = <<"zero">>], {})}
             ELSE step([h EXCEPT !.total_pages = Ceil(o.total, PAGE_SIZE)])
        ELSE IF o.kind = "fail"
             THEN LET h1 == [h EXCEPT !.issues = Append(@, "page")]
                  IN  IF h.page >= h.total_pages
                      THEN {Return(h1, T) : T \in Truncate(h1.found, Target)}
                      ELSE {NextPage(h1)}
             ELSE step(h)

\* {str(job['jobId']).strip() ...} without ""
NaukriIds(raw) == {Strip(PyStr(x)) : x \in raw} \ {Empty}

\* the loop without the `if len(newly_found_ids) >= NEW_JOB_TARGET: break`
NaukriPageNoTarget(h, ex, o) ==
    LET back(h1) == {Return(h1, T) : T \in Truncate(h1.found, Target)}
        step(h1) ==
            IF o.kind = "bad"
            THEN back([h1 EXCEPT !.issues = Append(@, "collect")])
            ELSE LET ids == NaukriIds(o.ids)
                     f == h1.found \cup (ids \ ex)
                     h2 == [h1 EXCEPT !.found = f, !.seen = @ \cup ids]
                 IN  IF h1.page >= h1.total_pages
                     THEN back(h2)
                     ELSE {NextPage(h2)}
    IN  IF h.page = 1
        THEN IF o.kind = "status"
             THEN {Return([h EXCEPT !.issues = Append(@, "status")], {})}
             ELSE IF o.kind = "fail"
             THEN back([h EXCEPT !.issues = Append(@, "collect")])
             ELSE IF Ceil(o.total, PAGE_SIZE) = 0
             THEN back(h)
             ELSE step([h EXCEPT !.total_pages = Ceil(o.total, PAGE_SIZE)])
        ELSE IF o.kind \in {"fail", "status"}
             THEN IF h.page >= h.total_pages THEN back(h) ELSE {NextPage(h)}
             ELSE step(h)

\* collect_new_job_ids, one iteration
NaukriPage(h, ex, o) ==
    LET back(h1) == {Return(h1, T) : T \in Truncate(h1.found, Target)}
        step(h1) ==
            IF o.kind = "bad"
            THEN back([h1 EXCEPT !.issues = Append(@, "collect")])
            ELSE LET ids == NaukriIds(o.ids)
                     f == h1.found \cup (ids \ ex)
                     h2 == [h1 EXCEPT !.found = f, !.seen = @ \cup ids]
                 IN  IF Cardinality(f) >= Target \/ h1.page >= h1.total_pages
                     THEN back(h2)
                     ELSE {NextPage(h2)}
    IN  IF h.page = 1
        THEN IF o.kind = "status"
             THEN {Return([h EXCEPT !.issues = Append(@, "status")], {})}
             ELSE IF o.kind = "fail"
             THEN back([h EXCEPT !.issues = Append(@, "collect")])
             ELSE IF Ceil(o.total, PAGE_SIZE) = 0
             THEN back(h)
             ELSE step([h EXCEPT !.total_pages = Ceil(o.total, PAGE_SIZE)])
        ELSE IF o.kind \in {"fail", "status"}
             THEN IF h.page >= h.total_pages THEN back(h) ELSE {NextPage(h)}
             ELSE step(h)

\* collect_new_rozee_jobs, one iteration of the while loop
RozeePage(h, ex, o) ==
    CASE o.kind = "fail" ->
            {Return([h EXCEPT !.issues = Append(@, "network")], h.found)}
      [] o.kind = "noparse" ->
            LET i1 == Append(h.issues, "parse")
            IN  IF Len(i1) > 5 /\ i1[Len(i1)] # "stop"
                THEN {Return([h EXCEPT !.issues = Append(i1, "stop")], h.found)}
                ELSE {NextPage([h EXCEPT !.issues = i1])}
      [] o.kind = "bad" -> {[h EXCEPT !.state = "raise"]}
      [] o.kind = "ok" ->
            IF o.ids = {}
            THEN {Return(h, h.found)}
            ELSE LET ids == {PyStr(x) : x \in o.ids} \ {Empty}
                     novel == (ids \ ex) \ h.found
                 IN  {LET h2 == [h EXCEPT !.found = @ \cup T,
                                          !.seen = @ \cup ids,
                                          !.rows = @ \o SetToSeq(T)]
                      IN  IF Cardinality(h2.found) >= Target
                          THEN Return(h2, h2.found)
                          ELSE NextPage(h2) :
                        T \in Truncate(novel, Target - Cardinality(h.found))}

\* the page loop without the `if page_num == 1: break`
BDJobsPageNoBreak(h, ex, o) ==
    LET back(h1) == {Return(h1, {PyStr(j) : j \in h1.found} \ ex)}
    IN  IF o.kind # "ok"
        THEN LET h1 == [h EXCEPT !.issues = Append(@, "page")]
             IN  IF h.page >= PAGES_TO_SCRAPE
                 THEN back(h1) ELSE {NextPage(h1)}
        ELSE LET h1 == [h EXCEPT !.found = @ \cup o.ids,
                                 !.seen = @ \cup {PyStr(j) : j \in o.ids}]
             IN  IF h.page >= PAGES_TO_SCRAPE THEN back(h1) ELSE {NextPage(h1)}

\* BDjobsMaster.py main, one iteration of the page loop, and new_job_ids
BDJobsPage(h, ex, o) ==
    LET back(h1) == {Return(h1, {PyStr(j) : j \in h1.found} \ ex)}
    IN  IF o.kind # "ok"
        THEN LET h1 == [h EXCEPT !.issues = Append(@, "page")]
             IN  IF h.page = 1 \/ h.page >= PAGES_TO_SCRAPE
                 THEN back(h1) ELSE {NextPage(h1)}
        ELSE LET h1 == [h EXCEPT !.found = @ \cup o.ids,
                                 !.seen = @ \cup {PyStr(j) : j \in o.ids}]
             IN  IF h.page >= PAGES_TO_SCRAPE THEN back(h1) ELSE {NextPage(h1)}

HarvestPage(s, h, ex, o) ==
    CASE s = "BDJobs" -> BDJobsPage(h, ex, o)
      [] s = "JobStreet" -> JobStreetPage(h, ex, o)
      [] s = "Naukri" -> NaukriPage(h, ex, o)
      [] s = "Rozee" -> RozeePage(h, ex, o)

\* the field values of the record fetched in run (or merge) r for request n
\* (the id asked for, or the position in the batch): two fetches never carry
\* equal values
Fetched(r, n) == <<r, n>>

Quiet ==
    /\ writer = [s \in Sources |-> NotSaving]
    /\ answer = "none"
    /\ backup = "none"
    /\ existing_ids = {}
    /\ existing_count = 0
    /\ issues = <<>>
    /\ page = 0
    /\ total_pages = 0
    /\ found = {}
    /\ seen = {}
    /\ new_ids = {}
    /\ todo = {}
    /\ failed = 0
    /\ summary = NoSummary
    /\ saveCalls = 0
    /\ harvested = FALSE
    /\ saved = "no"
    /\ exc = "none"

\* merge.py is not running
NoTables ==
    /\ salary_str = NaN
    /\ metadata = [source |-> "none", country |-> "none"]
    /\ multiplier = 0
    /\ raw_amount = [n |-> 0, d |-> 0]
    /\ usd = [n |-> 0, d |-> 0]
    /\ datasets = <<>>
    /\ today = 1
    /\ merged_df = <<>>
    /\ earlier_df = <<>>
    /\ trail = <<>>
    /\ reporter = "idle"
    /\ summaries = <<>>
    /\ reports = <<>>
    /\ column = "none"
    /\ new_value = [kind |-> "none", items |-> <<>>, text |-> <<>>]
    /\ stored = [kind |-> "none", items |-> <<>>, text |-> <<>>]

(***************************************************************************)
(* main of each script, and the __main__ guard.                            *)
(***************************************************************************)
Summary(status, ex, added, total, iss) ==
    [status |-> status, existing_jobs |-> ex, newly_added |-> added,
     new_total |-> total, issues |-> iss]

\* BDjobsMaster.py, the handler of the outer try of main
DriverCrash ==
    [status |-> "Crashed", error |-> "Failed to initialize Selenium driver."]

\* main with a load_existing_job_ids that lets the read error of an unreadable
\* master file out
BeginLoadRaises(s, file, up) ==
    IF file.exists /\ ~file.ok
    THEN [existing_ids |-> {}, existing_count |-> 0, issues |-> <<>>,
          pc |-> "guard", exc |-> "load", summary |-> NoSummary]
    ELSE
    LET ex == load_existing_job_ids(s, file)
        go == [existing_ids |-> ex, existing_count |-> Cardinality(ex),
               issues |-> <<>>, pc |-> "listing", exc |-> "none",
               summary |-> NoSummary]
    IN  CASE s = "BDJobs" ->
                IF up THEN go
                ELSE [go EXCEPT !.pc = "summary", !.exc = "driver",
                                !.summary = DriverCrash]
          [] s = "Naukri" ->
                [go EXCEPT !.issues =
                    (IF up THEN <<>> ELSE <<"token">>)
                    \o (IF file.exists /\ ~file.ok THEN <<"load">> ELSE <<>>)]
          [] s = "Rozee" -> go
          [] s = "JobStreet" ->
                IF up THEN go
                ELSE [go EXCEPT !.existing_ids = {}, !.existing_count = 0,
                                !.pc = "guard", !.exc = "setup"]

\* main up to the first listing request. `up`: the browser driver starts
\* (BDJobs), the search token is extracted (Naukri), setup_logging returns
\* (JobStreet).
Begin(s, file, up) ==
    LET ex == load_existing_job_ids(s, file)
        go == [existing_ids |-> ex, existing_count |-> Cardinality(ex),
               issues |-> <<>>, pc |-> "listing", exc |-> "none",
               summary |-> NoSummary]
    IN  CASE s = "BDJobs" ->
                IF up THEN go
                ELSE [go EXCEPT !.pc = "summary", !.exc = "driver",
                                !.summary = DriverCrash]
          [] s = "Naukri" ->
                [go EXCEPT !.issues =
                    (IF up THEN <<>> ELSE <<"token">>)
                    \o (IF file.exists /\ ~file.ok THEN <<"load">> ELSE <<>>)]
          [] s = "Rozee" -> go
          [] s = "JobStreet" ->
                IF up THEN go
                ELSE [go EXCEPT !.existing_ids = {}, !.existing_count = 0,
                                !.pc = "guard", !.exc = "setup"]

\* main right after the harvester returned `ids`. `up`: the browser of
\* scrape_details_with_browser starts (Naukri).
Harvested(s, ids, ec, iss, up) ==
    LET go == [pc |-> "details", exc |-> "none", summary |-> NoSummary]
    IN  CASE s \in {"BDJobs", "JobStreet"} ->
                IF ids = {}
                THEN [go EXCEPT !.pc = "summary",
                        !.summary = Summary("No new jobs", ec, 0, ec, iss)]
                ELSE go
          [] s = "Naukri" ->
                IF ids = {}
                THEN [go EXCEPT !.pc = "summary",
                        !.summary = Summary("No New Jobs", ec, 0, ec, iss)]
                ELSE IF up THEN go
                ELSE [go EXCEPT !.pc = "guard", !.exc = "launch"]
          [] s = "Rozee" -> [go EXCEPT !.pc = "save"]

\* what one detail request can answer: nothing usable (the fetch returns None
\* or raises), or a payload whose identifier field holds the requested id or the
\* number 1.0
DetailOutcomes(id) ==
    {[ok |-> FALSE, id |-> None]}
    \cup {[ok |-> TRUE, id |-> x] : x \in {id, <<"1", ".", "0">>}}

\* the "Job ID" of the record built from a payload
DetailJobId(s, x) == IF s = "Naukri" THEN Strip(PyStr(x)) ELSE PyStr(x)

\* main from the end of the detail loop to the summary dict; r is the outcome
\* of save_to_master, looked at only where main calls it
MainEnd(s, data, nfailed, ec, iss, r) ==
    LET iss1 == IF s \in {"BDJobs", "JobStreet"} /\ nfailed > 0
                THEN Append(iss, "details") ELSE iss
        done(status, added, total, iss2, sv) ==
            [summary |-> Summary(status, ec, added, total, iss2),
             issues |-> iss2, saved |-> sv, pc |-> "summary", exc |-> "none"]
    IN  IF data # <<>> /\ r.raised
        THEN [summary |-> NoSummary, issues |-> iss1, saved |-> "raised",
              pc |-> "guard", exc |-> "backup"]
        ELSE CASE s \in {"BDJobs", "JobStreet"} ->
                    IF data # <<>>
                    THEN IF r.ret # -1
                         THEN done(IF iss1 # <<>> THEN "Completed with issues"
                                   ELSE "Completed",
                                   Len(data), r.ret, iss1, "ok")
                         ELSE done("Save Failed", 0, ec,
                                   Append(iss1, "save"), "failed")
                    ELSE IF iss1 # <<>>
                    THEN done("Failed", 0, ec, iss1, "no")
                    ELSE done("Completed", 0, ec, iss1, "no")
               [] s = "Naukri" ->
                    IF data # <<>>
                    THEN IF r.ret = -1
                         THEN done("Save Failed", Len(data), ec,
                                   Append(iss1, "save"), "failed")
                         ELSE done("Completed", Len(data),
                                   IF r.ret > 0 THEN r.ret ELSE ec, iss1, "ok")
                    ELSE done("Completed (No Details)", 0, ec,
                              Append(iss1, "nodetails"), "no")
               [] s = "Rozee" ->
                    IF data = <<>>
                    THEN done(IF iss1 # <<>> THEN "Collection Failed"
                              ELSE "No new jobs", 0, ec, iss1, "no")
                    ELSE IF r.ret # -1
                    THEN done(IF iss1 # <<>> THEN "Completed with issues"
                              ELSE "Completed", Len(data), r.ret, iss1, "ok")
                    ELSE done("Save Failed", 0, ec, Append(iss1, "save"),
                              "failed")

\* the handler of an exception that left main: the __main__ guard of
\* BDjobsMaster.py, rozee.py and JobStreet_SG.py, the except of Noukri.py's main
CrashSummary(s, file, ec, iss) ==
    IF s = "Naukri"
    THEN Summary("Crashed", ec, 0, ec, Append(iss, "crash"))
    ELSE Summary("Crashed", Cardinality(load_existing_job_ids(s, file)), 0,
                 Cardinality(load_existing_job_ids(s, file)), <<"crash">>)

(***************************************************************************)
(* Spec: runs of one source's pipeline, one after the other.               *)
(***************************************************************************)
Init ==
    /\ master = [s \in Sources |-> NoFile]
    /\ pc = "idle"
    /\ src \in Sources
    /\ summaryFile \in StoresAtStart(src)
    /\ runs = 0
    /\ scraped_data = <<>>
    /\ ret = 0
    /\ before = NoFile
    /\ Quiet
    /\ NoTables

StartRun ==
    /\ pc \in {"idle", "done"}
    /\ runs < MaxRuns
    /\ runs' = runs + 1
    /\ \E up \in BOOLEAN :
        LET b == Begin(src, master[src], up)
        IN  /\ existing_ids' = b.existing_ids
            /\ existing_count' = b.existing_count
            /\ issues' = b.issues
            /\ pc' = b.pc
            /\ exc' = b.exc
            /\ summary' = b.summary
    /\ page' = 1
    /\ total_pages' = 0
    /\ found' = {}
    /\ seen' = {}
    /\ new_ids' = {}
    /\ todo' = {}
    /\ scraped_data' = <<>>
    /\ failed' = 0
    /\ ret' = 0
    /\ saveCalls' = 0
    /\ before' = NoFile
    /\ harvested' = FALSE
    /\ saved' = "no"
    /\ answer' = "none"
    /\ backup' = "none"
    /\ UNCHANGED writer
    /\ UNCHANGED tableVars
    /\ UNCHANGED <<master, summaryFile, src>>

ListPage ==
    /\ pc = "listing"
    /\ \E o \in PageOutcomes(src, page) :
        \E h \in HarvestPage(src,
                    [StartHarvest(issues) EXCEPT
                        !.found = found, !.seen = seen, !.page = page,
                        !.total_pages = total_pages,
                        !.rows = [i \in 1..Len(scraped_data) |-> scraped_data[i].id]],
                    existing_ids, o) :
            /\ found' = h.found
            /\ seen' = h.seen
            /\ issues' = h.issues
            /\ page' = h.page
            /\ total_pages' = h.total_pages
            /\ scraped_data' =
                [i \in 1..Len(h.rows) |->
                    [id |-> h.rows[i], val |-> Fetched(runs, i)]]
            /\ new_ids' = h.result
            /\ answer' = o.kind
            /\ harvested' = (h.state = "return")
            /\ pc' = CASE h.state = "more" -> "listing"
                       [] h.state = "return" -> "harvested"
                       [] h.state = "raise" -> "guard"
            /\ exc' = IF h.state = "raise" THEN "listing" ELSE exc
    /\ UNCHANGED <<writer, backup>>
    /\ UNCHANGED tableVars
    /\ UNCHANGED <<master, summaryFile, src, runs, existing_ids, existing_count,
                   todo, failed, ret, summary, saveCalls, before, saved>>

AfterHarvest ==
    /\ pc = "harvested"
    /\ \E up \in BOOLEAN :
        LET a == Harvested(src, new_ids, existing_count, issues, up)
        IN  /\ pc' = a.pc
            /\ exc' = a.exc
            /\ summary' = a.summary
            /\ todo' = IF a.pc = "details" THEN new_ids ELSE {}
    \* the harvester's locals end with its call
    /\ page' = 0
    /\ total_pages' = 0
    /\ found' = {}
    /\ seen' = {}
    /\ answer' = "none"
    /\ UNCHANGED <<writer, backup>>
    /\ UNCHANGED tableVars
    /\ UNCHANGED <<master, summaryFile, src, runs, existing_ids, existing_count,
                   issues, new_ids, scraped_data, failed, ret, saveCalls, before,
                   harvested, saved>>

FetchDetail ==
    /\ pc = "details"
    /\ \E id \in todo :
        /\ todo' = todo \ {id}
        /\ pc' = IF todo = {id} THEN "save" ELSE "details"
        /\ \E d \in DetailOutcomes(id) :
            IF d.ok
            THEN /\ scraped_data' =
                        Append(scraped_data,
                               [id |-> DetailJobId(src, d.id),
                                val |-> Fetched(runs, Cardinality(new_ids \ todo) + 1)])
                 /\ failed' = failed
            ELSE /\ scraped_data' = scraped_data
                 \* scrape_details_with_browser keeps no count of its misses
                 /\ failed' = IF src = "Naukri" THEN failed ELSE failed + 1
    /\ UNCHANGED <<writer, answer, backup>>
    /\ UNCHANGED tableVars
    /\ UNCHANGED <<master, summaryFile, src, runs, existing_ids, existing_count,
                   issues, page, total_pages, found, seen, new_ids, ret, summary,
                   saveCalls, before, harvested, saved, exc>>

Finish ==
    /\ pc = "save"
    /\ \E r \in IF scraped_data # <<>>
                THEN SaveToMaster(src, master[src], scraped_data)
                ELSE {[file |-> master[src], ret |-> ret, raised |-> FALSE,
                       backup |-> "none"]} :
        LET e == MainEnd(src, scraped_data, failed, existing_count, issues, r)
        IN  /\ master' = [master EXCEPT ![src] = r.file]
            /\ ret' = r.ret
            /\ backup' = r.backup
            /\ summary' = e.summary
            /\ issues' = e.issues
            /\ saved' = e.saved
            /\ pc' = e.pc
            /\ exc' = e.exc
    /\ before' = master[src]
    /\ UNCHANGED <<writer, answer>>
    /\ UNCHANGED tableVars
    /\ UNCHANGED <<summaryFile, src, runs, existing_ids, existing_count, page,
                   total_pages, found, seen, new_ids, todo, scraped_data, failed,
                   saveCalls, harvested>>

\* `up`: the setup_logging call of JobStreet_SG.py's guard returns; when it
\* raises, the exception leaves the guard and the process ends
Guard ==
    /\ pc = "guard"
    /\ \E up \in BOOLEAN :
        IF src = "JobStreet" /\ ~up
        THEN /\ pc' = "done"
             /\ summary' = summary
        ELSE /\ pc' = "summary"
             /\ summary' = CrashSummary(src, master[src], existing_count, issues)
    /\ UNCHANGED <<writer, answer, backup>>
    /\ UNCHANGED tableVars
    /\ UNCHANGED <<master, summaryFile, src, runs, existing_ids, existing_count,
                   issues, page, total_pages, found, seen, new_ids, todo,
                   scraped_data, failed, ret, saveCalls, before, harvested,
                   saved, exc>>

SaveRunSummary ==
    /\ pc = "summary"
    /\ \E w \in WriteOutcomes :
        summaryFile' = [summaryFile EXCEPT ![SUMMARY_FILE(src)] =
                            SaveRunSummaryFile(src, @, summary, w)]
    /\ saveCalls' = saveCalls + 1
    /\ pc' = "done"
    /\ UNCHANGED <<writer, answer, backup>>
    /\ UNCHANGED tableVars
    /\ UNCHANGED <<master, src, runs, existing_ids, existing_count, issues, page,
                   total_pages, found, seen, new_ids, todo, scraped_data, failed,
                   ret, summary, before, harvested, saved, exc>>

Next ==
    \/ StartRun
    \/ ListPage
    \/ AfterHarvest
    \/ FetchDetail
    \/ Finish
    \/ Guard
    \/ SaveRunSummary

Spec == Init /\ [][Next]_vars

(***************************************************************************)
(* SpecMerge: a sequence of save_to_master calls on one source's master    *)
(* file, each with any batch of at most MaxBatch records.                  *)
(***************************************************************************)
BatchIds == {<<"1">>, <<"2">>, <<" ", "1", ".", "0">>, Empty}
\* rozee.py reads the master file without dtype=str: the model keeps to ids
\* that such a read followed by astype(str) gives back unchanged
RozeeBatchIds == {<<"1">>, <<"2">>, <<"3">>}

BatchIdSeqs(s) ==
    UNION {[1..n -> IF s = "Rozee" THEN RozeeBatchIds ELSE BatchIds] :
              n \in 0..MaxBatch}

Batches(s, r) ==
    {[i \in 1..Len(ids) |-> [id |-> ids[i], val |-> Fetched(r, i)]] :
        ids \in BatchIdSeqs(s)}

InitMerge ==
    /\ master = [s \in Sources |-> NoFile]
    /\ pc = "merge"
    /\ src \in Sources
    /\ summaryFile = [p \in SummaryPaths |-> NoSummaryFile]
    /\ runs = 0
    /\ scraped_data = <<>>
    /\ ret = 0
    /\ before = NoFile
    /\ Quiet
    /\ NoTables

MergeStep ==
    /\ pc = "merge"
    /\ runs < MaxMerges
    /\ \E batch \in Batches(src, runs + 1) :
        \E r \in SaveToMaster(src, master[src], batch) :
            /\ master' = [master EXCEPT ![src] = r.file]
            /\ scraped_data' = batch
            /\ ret' = r.ret
            /\ backup' = r.backup
            /\ pc' = IF r.raised THEN "raised" ELSE "merge"
    /\ before' = master[src]
    /\ runs' = runs + 1
    /\ UNCHANGED <<writer, answer>>
    /\ UNCHANGED tableVars
    /\ UNCHANGED <<summaryFile, src, existing_ids, existing_count, issues, page,
                   total_pages, found, seen, new_ids, todo, failed, summary,
                   saveCalls, harvested, saved, exc>>

NextMerge == MergeStep

SpecMerge == InitMerge /\ [][NextMerge]_vars

(***************************************************************************)
(* SpecLoad: save_to_master calls as in SpecMerge, and then the start of   *)
(* the next run, which loads the identifiers of the master file.           *)
(***************************************************************************)
\* existing_ids = load_existing_job_ids(); existing_count = len(existing_ids)
LoadIds ==
    /\ pc = "merge"
    /\ existing_ids' = load_existing_job_ids(src, master[src])
    /\ existing_count' = Cardinality(load_existing_job_ids(src, master[src]))
    /\ pc' = "loaded"
    /\ UNCHANGED <<writer, answer, backup>>
    /\ UNCHANGED tableVars
    /\ UNCHANGED <<master, summaryFile, src, runs, issues, page, total_pages,
                   found, seen, new_ids, todo, scraped_data, failed, ret,
                   summary, saveCalls, before, harvested, saved, exc>>

NextLoad ==
    \/ MergeStep
    \/ LoadIds

SpecLoad == InitMerge /\ [][NextLoad]_vars

(***************************************************************************)
(* SpecSummary: the scripts end their runs at the same time; every script  *)
(* is inside its own save_run_summary, whose file accesses interleave      *)
(* with those of the others. No file access fails here.                    *)
(***************************************************************************)
MaxSaves == 2     \* save_run_summary calls of one script in SpecSummary

\* the summary dict of the k-th run of a script
RunOutcome(k) == Summary("Completed", 0, k, k, <<>>)

InitSummary ==
    /\ master = [s \in Sources |-> NoFile]
    /\ pc = "summaries"
    /\ src = "JobStreet"
    /\ summaryFile = [p \in SummaryPaths |-> NoSummaryFile]
    /\ runs = 0
    /\ scraped_data = <<>>
    /\ ret = 0
    /\ before = NoFile
    /\ Quiet
    /\ NoTables

\* all_summaries = {}; if os.path.exists(...): all_summaries = json.load(f);
\* all_summaries[scraper_name] = summary_data
SumRead(s) ==
    LET f == summaryFile[SUMMARY_FILE(s)]
        loaded == IF f.exists /\ f.valid THEN f.map ELSE <<>>
    IN  /\ writer[s].pc = "idle"
        /\ writer[s].calls < MaxSaves
        /\ writer' = [writer EXCEPT ![s] =
                IF f.exists /\ ~f.valid /\ s # "Naukri"
                THEN [pc |-> "idle", all_summaries |-> <<>>, calls |-> @.calls + 1]
                ELSE [pc |-> "open",
                      all_summaries |->
                          Put(loaded, DisplayName(s), RunOutcome(@.calls + 1)),
                      calls |-> @.calls + 1]]
        /\ UNCHANGED summaryFile

\* open(SUMMARY_FILE, 'w'): the file is created or cut to length 0
SumOpen(s) ==
    /\ writer[s].pc = "open"
    /\ writer' = [writer EXCEPT ![s].pc = "dump"]
    /\ summaryFile' = [summaryFile EXCEPT ![SUMMARY_FILE(s)] =
                          [exists |-> TRUE, valid |-> FALSE, map |-> <<>>]]

\* json.dump(all_summaries, f, indent=4) and the close of the file
SumDump(s) ==
    /\ writer[s].pc = "dump"
    /\ writer' = [writer EXCEPT ![s].pc = "idle", ![s].all_summaries = <<>>]
    /\ summaryFile' = [summaryFile EXCEPT ![SUMMARY_FILE(s)] =
                          [exists |-> TRUE, valid |-> TRUE,
                           map |-> writer[s].all_summaries]]

NextSummary ==
    /\ \E s \in Sources : SumRead(s) \/ SumOpen(s) \/ SumDump(s)
    /\ UNCHANGED <<master, pc, src, runs, existing_ids, existing_count, issues,
                   page, total_pages, found, seen, new_ids, todo, scraped_data,
                   failed, ret, summary, saveCalls, before, harvested, saved,
                   exc, answer, backup>>
    /\ UNCHANGED tableVars

SpecSummary == InitSummary /\ [][NextSummary]_vars

(***************************************************************************)
(* The merge (SpecMerge).                                                  *)
(***************************************************************************)
\* the master file of the running source holds rows that can be read
Persisted == master[src].exists /\ master[src].ok

\* the Job ID under which save_to_master of source s compares two rows
MergeKey(s, c) == IF s \in {"Naukri", "JobStreet"} THEN CleanId(c) ELSE AsStr(c)

\* the last save_to_master call merged its batch into a master file that
\* existed, and wrote the result
MergedIntoMaster ==
    /\ pc = "merge"
    /\ runs > 0
    /\ before.exists
    /\ scraped_data # <<>>
    /\ ret # -1

\* the batch row i carries a key that a row of the master file carried
KeyWasPresent(i) ==
    \E j \in 1..Len(before.rows) :
        MergeKey(src, ReadRows(before)[j].id) = MergeKey(src, scraped_data[i].id)

\* the last row of the batch that carries the key of row i
LastOccurrence(i) ==
    CHOOSE n \in 1..Len(scraped_data) :
        /\ MergeKey(src, scraped_data[n].id) = MergeKey(src, scraped_data[i].id)
        /\ \A m \in (n + 1)..Len(scraped_data) :
              MergeKey(src, scraped_data[m].id) # MergeKey(src, scraped_data[i].id)

\* the keys of the master file and the batch that the merge keeps
KeptKeys ==
    {MergeKey(src, c) : c \in RowIds(ReadRows(before)) \cup RowIds(scraped_data)}
    \ (IF src = "JobStreet" THEN {Empty} ELSE {})

\* C1: after any sequence of save_to_master merges (the first one, with no
\* master file, included; any batch) the persisted dataset holds at most one
\* row per Job ID.
C1_OneRowPerJobId ==
    Persisted =>
        \A i, j \in 1..Len(master[src].rows) :
            master[src].rows[i].id = master[src].rows[j].id => i = j

HarvestReturned == pc = "harvested"

\* B \ A: the keys extracted from the pages visited that are not existing
Novel == seen \ existing_ids

\* C3: for the existing keys A and the keys B found on the pages visited, the
\* harvester's result is exactly B \ A when B \ A has at most `target` keys,
\* and otherwise a subset of B \ A of exactly `target` keys; it holds no key
\* of A (and, being a set here, no key twice).
C3_HarvestIsNovelCapped ==
    HarvestReturned =>
        /\ new_ids \cap existing_ids = {}
        /\ IF Cardinality(Novel) <= Target
           THEN new_ids = Novel
           ELSE new_ids \subseteq Novel /\ Cardinality(new_ids) = Target

(***************************************************************************)
(* The outcome of a run (Spec): the summary dict of main or of the guard.  *)
(***************************************************************************)
\* the status strings the scripts write for the terminal states
Completed == {"Completed"}
CompletedWithIssues == {"Completed with issues"}
NoNewJobs == {"No new jobs", "No New Jobs"}
Failed == {"Failed"}
SaveFailed == {"Save Failed"}
Crashed == {"Crashed"}

\* the run is over: save_run_summary has returned, or the process has died
RunEnded == pc = "done"

\* the summary dict carries the three counts
HasCounts ==
    {"existing_jobs", "newly_added", "new_total"} \subseteq DOMAIN summary

\* C4: a run whose harvester yields no novel identifier ends with status
\* NoNewJobs, newly_added = 0 and new_total = existing_count, with or without
\* issues recorded while the identifiers were collected.
C4_NoNovelIdsIsNoNewJobs ==
    (RunEnded /\ harvested /\ new_ids = {}) =>
        /\ summary.status \in NoNewJobs
        /\ HasCounts
        /\ summary.newly_added = 0
        /\ summary.new_total = summary.existing_jobs
        /\ summary.existing_jobs = existing_count

\* C5: a run that obtained new records and failed to persist the merged
\* dataset ends with status SaveFailed and new_total = existing_count.
C5_FailedSaveIsSaveFailed ==
    (RunEnded /\ scraped_data # <<>> /\ saved \in {"failed", "raised"}) =>
        /\ summary.status \in SaveFailed
        /\ HasCounts
        /\ summary.new_total = summary.existing_jobs
        /\ summary.existing_jobs = existing_count

\* C6: a run that fetched at least one record and persisted it ends with
\* status CompletedWithIssues if an issue was recorded anywhere in the run,
\* and with status Completed if none was.
C6_CompletedWithIssuesIffIssues ==
    (RunEnded /\ scraped_data # <<>> /\ saved = "ok") =>
        IF issues # <<>>
        THEN summary.status \in CompletedWithIssues
        ELSE summary.status \in Completed

\* C7: a run that found novel identifiers, got no record out of the detail
\* fetches and has issues recorded ends with status Failed.
C7_NoRecordsIsFailed ==
    (RunEnded /\ harvested /\ new_ids # {} /\ exc = "none"
        /\ scraped_data = <<>> /\ issues # <<>>) =>
        summary.status \in Failed

\* C8: after an exception that no handler of the pipeline's steps caught, the
\* outcome of the run has status Crashed and carries existing_count,
\* newly_added = 0 and new_total = existing_count.
C8_CrashedCarriesCounts ==
    (RunEnded /\ exc # "none") =>
        /\ summary.status \in Crashed
        /\ HasCounts
        /\ summary.newly_added = 0
        /\ summary.new_total = summary.existing_jobs

\* C9: the status of the outcome of every run is one of Completed,
\* CompletedWithIssues, NoNewJobs, Failed, SaveFailed, Crashed.
C9_StatusIsTerminalState ==
    (RunEnded /\ saveCalls > 0) =>
        summary.status \in
            Completed \cup CompletedWithIssues \cup NoNewJobs \cup Failed
            \cup SaveFailed \cup Crashed

\* C10: save_run_summary is called at most once in a run, and after the call
\* the summary file's entry for the source name is the outcome of this run.
C10_OneSummaryPerRun ==
    /\ saveCalls <= 1
    /\ (RunEnded /\ saveCalls = 1) =>
          LET f == summaryFile[SUMMARY_FILE(src)]
          IN  /\ f.exists
              /\ f.valid
              /\ DisplayName(src) \in DOMAIN f.map
              /\ f.map[DisplayName(src)] = summary

(***************************************************************************)
(* The run-summary store (Spec).                                           *)
(***************************************************************************)
\* the summary file of the running script
Store == summaryFile[SUMMARY_FILE(src)]

\* C11: every run ends with an outcome of its source persisted in the
\* summary file, whatever step failed, also when the existing file does not
\* decode and when the write of the summary raises.
C11_OutcomeAlwaysPersisted ==
    RunEnded =>
        /\ Store.exists
        /\ Store.valid
        /\ DisplayName(src) \in DOMAIN Store.map
        /\ Store.map[DisplayName(src)] = summary

\* C12: save_run_summary changes only the entry of its own source name: an
\* entry that a readable summary file holds under another name is present
\* and unchanged after the call.
C12_OnlyOwnEntryChanges ==
    [][\A p \in SummaryPaths :
          (summaryFile[p].exists /\ summaryFile[p].valid) =>
              \A n \in DOMAIN summaryFile[p].map :
                  \/ /\ pc = "summary"
                     /\ p = SUMMARY_FILE(src)
                     /\ n = DisplayName(src)
                  \/ /\ summaryFile'[p].exists
                     /\ summaryFile'[p].valid
                     /\ n \in DOMAIN summaryFile'[p].map
                     /\ summaryFile'[p].map[n] = summaryFile[p].map[n]]_vars

(***************************************************************************)
(* The run-summary store under concurrent writers (SpecSummary).           *)
(***************************************************************************)
\* no script that writes to the file at path p is inside save_run_summary
NoWriterAt(p) ==
    \A s \in Sources : SUMMARY_FILE(s) = p => writer[s].pc = "idle"

\* C13: save_run_summary calls of two scripts that interleave in any way leave
\* a summary file that holds the outcome of both (no lost update).
C13_NoLostUpdate ==
    \A s \in Sources :
        (writer[s].calls > 0 /\ NoWriterAt(SUMMARY_FILE(s))) =>
            LET f == summaryFile[SUMMARY_FILE(s)]
            IN  /\ f.exists
                /\ f.valid
                /\ DisplayName(s) \in DOMAIN f.map
                /\ f.map[DisplayName(s)] = RunOutcome(writer[s].calls)

(***************************************************************************)
(* The id harvester and its listing pages (Spec).                          *)
(***************************************************************************)
\* the answers that are a failed fetch of a listing page: a transport error or
\* a raised decode ("fail"), an error status ("status"), a body the page
\* parser gives up on ("noparse")
FetchFailures == {"fail", "status", "noparse"}

\* the step is the request of the first listing page, and that fetch failed
FirstPageFails == pc = "listing" /\ page = 1 /\ answer' \in FetchFailures

\* the step ends the harvest with no identifier, no record, and one issue more
EndsHarvestEmpty ==
    /\ pc' = "harvested"
    /\ page' = page
    /\ new_ids' = {}
    /\ scraped_data' = <<>>
    /\ Len(issues') > Len(issues)

LaterPageFails == pc = "listing" /\ page > 1 /\ answer' \in FetchFailures

\* the page being requested is the last one the loop will ask for
LastPage ==
    CASE src \in {"JobStreet", "Naukri"} -> page >= total_pages
      [] src = "BDJobs" -> page >= PAGES_TO_SCRAPE
      [] src = "Rozee" -> FALSE

\* what the harvester returns of the identifiers found so far
KeptIds ==
    IF src = "BDJobs"
    THEN {PyStr(j) : j \in found} \ existing_ids
    ELSE found

\* C15: when the fetch of a listing page other than the first fails, the
\* harvester of every source records an issue for that page, takes no
\* identifier from it and goes on with the next page (or returns, after the
\* last page); what the earlier pages gave is kept.
C15_LaterPageFailureIsSkipped ==
    [][LaterPageFails =>
            /\ Len(issues') > Len(issues)
            /\ found' = found
            /\ scraped_data' = scraped_data
            /\ IF LastPage
               THEN pc' = "harvested" /\ new_ids' = KeptIds
               ELSE pc' = "listing" /\ page' = page + 1]_vars

\* a harvest of a source whose first listing page reports a total count is
\* under way or has just returned, and the first page was decoded
TotalReported ==
    /\ src \in {"JobStreet", "Naukri"}
    /\ pc \in {"listing", "harvested"}
    /\ (page > 1 \/ answer \in {"ok", "bad"})

\* the listing requests of this harvest so far: at "listing" the request of
\* `page` is still to be made
RequestsMade == IF pc = "listing" THEN page - 1 ELSE page

Max(a, b) == IF a > b THEN a ELSE b

\* C16, as stated: with a reported total, the listing requests of one harvest,
\* the first included, never exceed ceil(reported_total / page_size)
\* (total_pages), and no page is requested once the novel keys reached target.
C16_RequestsWithinReportedTotal ==
    TotalReported =>
        /\ RequestsMade <= total_pages
        /\ pc = "listing" => page <= total_pages /\ Cardinality(found) < Target

\* C16, amended: the listing requests of one harvest never exceed the larger
\* of 1 and ceil(reported_total / page_size), the first request being the one
\* that learns the total; every further request is for a page within
\* total_pages and is made only while the novel keys are below target, so
\* the harvest ends after at most that many requests.
C16_RequestsWithinPlan ==
    TotalReported =>
        /\ RequestsMade <= Max(1, total_pages)
        /\ pc = "listing" => page <= total_pages /\ Cardinality(found) < Target

\* a harvest that stopped at the target with a page of the plan left
C16_Witness ==
    /\ TotalReported
    /\ pc = "harvested"
    /\ page < total_pages
    /\ Cardinality(found) >= Target

(***************************************************************************)
(* The detail loop (Spec).                                                 *)
(***************************************************************************)
\* main is in, or has just left, the loop over the harvester's identifiers
InDetailLoop == src # "Rozee" /\ pc \in {"details", "save"}

\* the identifiers the loop has asked the details of
Attempted == new_ids \ todo

\* C17: the detail loop attempts every identifier the harvester returned,
\* once each, whatever the earlier fetches did, and the records obtained plus
\* the recorded count of failed fetches equal the identifiers attempted.
C17_EveryIdAttemptedAndCounted ==
    InDetailLoop =>
        /\ Len(scraped_data) + failed = Cardinality(Attempted)
        /\ pc = "save" => Attempted = new_ids

\* the run is over and its detail loop went through the harvester's identifiers
DetailLoopRan ==
    RunEnded /\ src # "Rozee" /\ new_ids # {} /\ exc # "launch"

\* the detail fetches of the run that gave no record
Absent == Cardinality(new_ids) - Len(scraped_data)

\* the issues of a summary that report detail fetches without a record
ReportsFailedFetches(s) ==
    /\ "issues" \in DOMAIN s
    /\ \E i \in 1..Len(s.issues) : s.issues[i] \in {"details", "nodetails"}

\* C18: a detail fetch never raises, an error of any kind gives no record for
\* that identifier, and whenever at least one fetch of the run gave no record
\* the final outcome carries an issue that reports failed fetches.
C18_AbsentFetchesAreReported ==
    (DetailLoopRan /\ Absent > 0) => ReportsFailedFetches(summary)

(***************************************************************************)
(* A save_to_master that fails (Spec).                                     *)
(***************************************************************************)
\* the step is main's call of save_to_master, and the call reports failure:
\* it returns -1, or (BDJobs) the exception of its backup write leaves it
SaveReportsFailure ==
    pc = "save" /\ scraped_data # <<>> /\ saved' \in {"failed", "raised"}

\* C19: whenever save_to_master reports failure, the master file is exactly
\* what it was before the call.
C19_FailedSaveLeavesMaster ==
    [][SaveReportsFailure => master' = master]_vars

\* C20: in every source, when persisting the merged master fails, a backup
\* write of the new batch is attempted before the failure is reported, and
\* a failure of that backup write changes nothing: the caller still gets the
\* failure result and the run ends as Save Failed.
C20_BackupBeforeSaveFailed ==
    [][SaveReportsFailure =>
            /\ backup' \in {"written", "raised"}
            /\ ret' = -1
            /\ saved' = "failed"
            /\ summary'.status \in SaveFailed]_vars

(***************************************************************************)
(* Loading the existing identifiers (SpecLoad, Spec).                      *)
(***************************************************************************)
\* a key as the harvester would produce it: not empty, not the text of a
\* missing cell, no trailing ".0", no surrounding whitespace
CleanKey(k) ==
    /\ k # Empty
    /\ k # AsStr(NaN)
    /\ StripDot0(k) = k
    /\ Strip(k) = k

\* C21: for every source, the loaded set of existing identifiers holds no
\* empty or null-derived key, and every key in it is free of a trailing ".0"
\* and of surrounding whitespace.
C21_LoadedKeysAreClean ==
    pc = "loaded" => \A k \in existing_ids : CleanKey(k)

\* the step starts a run on a master file that is missing or unreadable
StartsWithoutHistory ==
    /\ pc \in {"idle", "done"}
    /\ runs' = runs + 1
    /\ ~master[src].exists \/ ~master[src].ok

\* what makes a run crash, the load of the identifiers not among them: the
\* browser driver, setup_logging, the browser launch, a listing payload, the
\* backup write
CrashCauses == {"driver", "setup", "launch", "listing", "backup"}

\* C22: a run that starts on a missing or unreadable master file loads the
\* empty set, goes on with existing_count = 0 to its first listing request
\* (unless something else fails), and no outcome is Crashed without a cause
\* other than the load.
C22_UnreadableMasterIsNoHistory ==
    [][/\ StartsWithoutHistory =>
            /\ existing_ids' = {}
            /\ existing_count' = 0
            /\ exc' \in {"none"} \cup CrashCauses
            /\ exc' = "none" => pc' = "listing"
       /\ summary'.status \in Crashed => exc' \in CrashCauses]_vars

\* a second run that started on the unreadable file a failed save left
C22_Witness ==
    /\ pc = "listing"
    /\ master[src].exists
    /\ ~master[src].ok
    /\ existing_count = 0

(***************************************************************************)
(* merge.py: parse_local_amount and get_salary_in_usd.                     *)
(* Amounts are exact fractions [n, d] in lowest terms, d > 0.              *)
(***************************************************************************)
\* np.nan among the amounts
nan == [n |-> 0, d |-> 0]

RECURSIVE Gcd(_, _)
Gcd(a, b) == IF b = 0 THEN a ELSE Gcd(b, a % b)

Frac(n, d) == [n |-> n \div Gcd(n, d), d |-> d \div Gcd(n, d)]

AddF(a, b) == Frac(a.n * b.d + b.n * a.d, a.d * b.d)

\* a * b, reduced before the products are formed
MulF(a, b) ==
    [n |-> (a.n \div Gcd(a.n, b.d)) * (b.n \div Gcd(b.n, a.d)),
     d |-> (a.d \div Gcd(b.n, a.d)) * (b.d \div Gcd(a.n, b.d))]

LessF(a, b) == a.n * b.d < b.n * a.d

\* n / d rounded to an integer, a tie going to the even neighbour
RoundHalfEven(n, d) ==
    LET q == n \div d
        r == n % d
    IN  IF 2 * r < d THEN q
        ELSE IF 2 * r > d THEN q + 1
        ELSE IF q % 2 = 0 THEN q ELSE q + 1

\* round(x, 2)
Round2(f) ==
    IF 100 % f.d = 0 THEN f ELSE Frac(RoundHalfEven(f.n * 100, f.d), 100)

UpperCase == <<"A", "B", "C", "D", "E", "F", "G", "H", "I", "J", "K", "L", "M",
               "N", "O", "P", "Q", "R", "S", "T", "U", "V", "W", "X", "Y", "Z">>
LowerCase == <<"a", "b", "c", "d", "e", "f", "g", "h", "i", "j", "k", "l", "m",
               "n", "o", "p", "q", "r", "s", "t", "u", "v", "w", "x", "y", "z">>
DigitChars == <<"0", "1", "2", "3", "4", "5", "6", "7", "8", "9">>

\* str.lower()
Lower(s) ==
    [i \in 1..Len(s) |->
        IF \E k \in 1..26 : UpperCase[k] = s[i]
        THEN LowerCase[CHOOSE k \in 1..26 : UpperCase[k] = s[i]]
        ELSE s[i]]

IsDigit(c) == \E k \in 1..10 : DigitChars[k] = c
IsLetter(c) == \E k \in 1..26 : LowerCase[k] = c \/ UpperCase[k] = c
DigitValue(c) == (CHOOSE k \in 1..10 : DigitChars[k] = c) - 1

\* `p in s`
Contains(s, p) ==
    \E i \in 1..(Len(s) - Len(p) + 1) : SubSeq(s, i, i + Len(p) - 1) = p

\* s.endswith(p)
EndsWith(s, p) ==
    Len(s) >= Len(p) /\ SubSeq(s, Len(s) - Len(p) + 1, Len(s)) = p

\* the text with its commas left in
KeepCommas(s) == s

\* s.replace(',', '')
RemoveCommas(s) == SelectSeq(s, LAMBDA c : c # ",")

\* the last index of the run of digits that starts at i
RECURSIVE DigitsEnd(_, _)
DigitsEnd(s, i) ==
    IF i < Len(s) /\ IsDigit(s[i + 1]) THEN DigitsEnd(s, i + 1) ELSE i

\* int(s[i..j])
RECURSIVE IntOf(_, _, _)
IntOf(s, i, j) ==
    IF j < i THEN 0 ELSE IntOf(s, i, j - 1) * 10 + DigitValue(s[j])

RECURSIVE Pow10(_)
Pow10(k) == IF k = 0 THEN 1 ELSE 10 * Pow10(k - 1)

\* [float(n) for n in re.findall(r'(\d+(?:\.\d+)?)', s)], from position i on
RECURSIVE FindNumbers(_, _)
FindNumbers(s, i) ==
    IF i > Len(s) THEN <<>>
    ELSE IF ~IsDigit(s[i]) THEN FindNumbers(s, i + 1)
    ELSE LET j == DigitsEnd(s, i)
         IN  IF j + 2 <= Len(s) /\ s[j + 1] = "." /\ IsDigit(s[j + 2])
             THEN LET k == DigitsEnd(s, j + 2)
                  IN  <<Frac(IntOf(s, i, j) * Pow10(k - j - 1)
                                + IntOf(s, j + 2, k),
                             Pow10(k - j - 1))>>
                      \o FindNumbers(s, k + 1)
             ELSE <<Frac(IntOf(s, i, j), 1)>> \o FindNumbers(s, j + 1)

RECURSIVE SumF(_)
SumF(nums) ==
    IF nums = <<>> THEN Frac(0, 1) ELSE AddF(Head(nums), SumF(Tail(nums)))

\* sum(clean_nums) / len(clean_nums)
Average(nums) == MulF(SumF(nums), Frac(1, Len(nums)))

\* the texts that end parse_local_amount at once
Undisclosed ==
    {<<"n", "o", "t", " ", "d", "i", "s", "c", "l", "o", "s", "e", "d">>,
     <<"n", "e", "g", "o", "t", "i", "a", "b", "l", "e">>,
     <<"c", "o", "n", "f", "i", "d", "e", "n", "t", "i", "a", "l">>,
     <<"c", "o", "m", "p", "e", "t", "i", "t", "i", "v", "e">>}

\* text = str(salary_str).lower().strip()
SalaryText(s) == Strip(Lower(s))

\* step 1 of parse_local_amount: the multiplier of text_clean
Multiplier(text_clean) ==
    IF Contains(text_clean, <<"c", "r", "o", "r", "e">>)
       \/ Contains(text_clean, <<"c", "r">>)
    THEN 10000000
    ELSE IF Contains(text_clean, <<"l", "a", "c", "s">>)
            \/ Contains(text_clean, <<"l", "a", "k", "h">>)
            \/ Contains(text_clean, <<"l", "p", "a">>)
    THEN 100000
    ELSE IF Contains(text_clean, <<"k", " ">>) \/ EndsWith(text_clean, <<"k">>)
    THEN 1000
    ELSE 1

\* parse_local_amount taking the first number of the text, not the average
ParseFirstNumber(s) ==
    IF s = NaN \/ Strip(s) = Empty
    THEN [multiplier |-> 0, value |-> nan]
    ELSE IF \E x \in Undisclosed : Contains(SalaryText(s), x)
    THEN [multiplier |-> 0, value |-> nan]
    ELSE LET text_clean == RemoveCommas(SalaryText(s))
             m == Multiplier(text_clean)
             numbers == FindNumbers(text_clean, 1)
         IN  IF numbers = <<>>
             THEN [multiplier |-> m, value |-> nan]
             ELSE IF m = 1 /\ LessF(Head(numbers), Frac(100, 1))
             THEN [multiplier |-> m, value |-> nan]
             ELSE [multiplier |-> m,
                   value |-> MulF(Head(numbers), Frac(m, 1))]

\* parse_local_amount: the multiplier it reached (0: it returned before) and
\* the value it returns
parse_local_amount(s) ==
    IF s = NaN \/ Strip(s) = Empty
    THEN [multiplier |-> 0, value |-> nan]
    ELSE IF \E x \in Undisclosed : Contains(SalaryText(s), x)
    THEN [multiplier |-> 0, value |-> nan]
    ELSE LET text_clean == RemoveCommas(SalaryText(s))
             m == Multiplier(text_clean)
             numbers == FindNumbers(text_clean, 1)
         IN  IF numbers = <<>>
             THEN [multiplier |-> m, value |-> nan]
             ELSE IF m = 1 /\ LessF(Average(numbers), Frac(100, 1))
             THEN [multiplier |-> m, value |-> nan]
             ELSE [multiplier |-> m,
                   value |-> MulF(Average(numbers), Frac(m, 1))]

\* FILE_METADATA, in the order of the dict
FILE_METADATA ==
    <<[source |-> "BDJobs", country |-> "Bangladesh"],
      [source |-> "Naukri", country |-> "India"],
      [source |-> "Rozee", country |-> "Pakistan"],
      [source |-> "JobStreet", country |-> "Indonesia"],
      [source |-> "JobStreet", country |-> "Philippines"],
      [source |-> "JobStreet", country |-> "Singapore"]>>

\* EXCHANGE_RATES.get(country, 0)
ExchangeRate(country) ==
    CASE country = "India" -> Frac(12, 1000)
      [] country = "Bangladesh" -> Frac(85, 10000)
      [] country = "Pakistan" -> Frac(36, 10000)
      [] country = "Singapore" -> Frac(74, 100)
      [] country = "Indonesia" -> Frac(64, 1000000)
      [] country = "Philippines" -> Frac(18, 1000)
      [] OTHER -> Frac(0, 1)

\* get_salary_in_usd with a yearly source never recognised
AlwaysMonthly(s, country, source) ==
    IF s = NaN THEN nan
    ELSE LET raw == parse_local_amount(s).value
         IN  IF raw = nan \/ raw = Frac(0, 1) THEN nan
             ELSE Round2(MulF(MulF(raw, ExchangeRate(country)), Frac(12, 1)))

get_salary_in_usd(s, country, source) ==
    IF s = NaN THEN nan
    ELSE LET raw == parse_local_amount(s).value
         IN  IF raw = nan \/ raw = Frac(0, 1) THEN nan
             ELSE LET usd_amount == MulF(raw, ExchangeRate(country))
                  IN  IF source = "Naukri" \/ country = "India"
                      THEN Round2(usd_amount)
                      ELSE Round2(MulF(usd_amount, Frac(12, 1)))

(***************************************************************************)
(* SpecSalary: one salary text of one file's row, handed to                *)
(* parse_local_amount or to get_salary_in_usd.                             *)
(***************************************************************************)
\* the salary cells the model feeds: a missing cell and the texts
SalaryInputs ==
    {NaN,
     <<>>,
     <<"N", "e", "g", "o", "t", "i", "a", "b", "l", "e">>,
     <<"c", "o", "m", "p", "e", "t", "i", "t", "i", "v", "e", " ", "5", "0", "0">>,
     <<"s", "a", "l", "a", "r", "y">>,
     <<"5", "-", "7", " ", "L", "a", "c", "s">>,
     <<"2", ".", "5", " ", "l", "a", "k", "h">>,
     <<"6", " ", "L", "P", "A">>,
     <<"1", " ", "c", "r", "o", "r", "e">>,
     <<"2", " ", "C", "r">>,
     <<"5", " ", "L", "a", "c", "s", " ", "+", " ", "i", "n", "c", "r", "e", "m", "e", "n", "t">>,
     <<"5", "0", "k">>,
     <<"2", "0", " ", "k", " ", "p", "m">>,
     <<"b", "a", "n", "k", " ", "5", "0", "0">>,
     <<"5", "0", ",", "0", "0", "0", " ", "-", " ",
       "7", "0", ",", "0", "0", "0", " ", "P", "K", "R">>,
     <<"6", "0", "0", "0", "0", "0">>,
     <<"6", "0", "0", "0", "0">>,
     <<"2", "-", "5", " ", "y", "e", "a", "r", "s">>,
     <<"0", " ", "l", "a", "c", "s">>,
     <<"1", "0", "1">>}

\* no scraper is running
ScrapersIdle ==
    /\ master = [s \in Sources |-> NoFile]
    /\ summaryFile = [p \in SummaryPaths |-> NoSummaryFile]
    /\ src = "JobStreet"
    /\ runs = 0
    /\ scraped_data = <<>>
    /\ ret = 0
    /\ before = NoFile
    /\ Quiet

scraperVars ==
    <<master, summaryFile, src, runs, existing_ids, existing_count, issues,
      page, total_pages, found, seen, new_ids, todo, scraped_data, failed, ret,
      summary, saveCalls, before, harvested, saved, exc, writer, answer,
      backup>>

InitSalary ==
    /\ pc = "salary"
    /\ salary_str \in SalaryInputs
    /\ metadata \in {FILE_METADATA[i] : i \in 1..Len(FILE_METADATA)}
    /\ multiplier = 0
    /\ raw_amount = nan
    /\ usd = nan
    /\ datasets = <<>>
    /\ today = 1
    /\ merged_df = <<>>
    /\ earlier_df = <<>>
    /\ trail = <<>>
    /\ reporter = "idle"
    /\ summaries = <<>>
    /\ reports = <<>>
    /\ column = "none"
    /\ new_value = [kind |-> "none", items |-> <<>>, text |-> <<>>]
    /\ stored = [kind |-> "none", items |-> <<>>, text |-> <<>>]
    /\ ScrapersIdle

ParseLocalAmount ==
    /\ pc = "salary"
    /\ multiplier' = parse_local_amount(salary_str).multiplier
    /\ raw_amount' = parse_local_amount(salary_str).value
    /\ pc' = "parsed"
    /\ UNCHANGED <<salary_str, metadata, usd>>
    /\ UNCHANGED normalizerVars
    /\ UNCHANGED flattenVars
    /\ UNCHANGED <<rozeeVars, reportVars>>
    /\ UNCHANGED scraperVars

GetSalaryInUsd ==
    /\ pc = "salary"
    /\ multiplier' =
            IF salary_str = NaN THEN 0
            ELSE parse_local_amount(salary_str).multiplier
    /\ raw_amount' =
            IF salary_str = NaN THEN nan
            ELSE parse_local_amount(salary_str).value
    /\ usd' = get_salary_in_usd(salary_str, metadata.country, metadata.source)
    /\ pc' = "converted"
    /\ UNCHANGED <<salary_str, metadata>>
    /\ UNCHANGED normalizerVars
    /\ UNCHANGED flattenVars
    /\ UNCHANGED <<rozeeVars, reportVars>>
    /\ UNCHANGED scraperVars

NextSalary ==
    \/ ParseLocalAmount
    \/ GetSalaryInUsd

SpecSalary == InitSalary /\ [][NextSalary]_vars

(***************************************************************************)
(* The salary parser (SpecSalary).                                         *)
(***************************************************************************)
\* "50,000 - 70,000 PKR" and "5-7 Lacs"
PkrRange ==
    <<"5", "0", ",", "0", "0", "0", " ", "-", " ",
      "7", "0", ",", "0", "0", "0", " ", "P", "K", "R">>
FiveToSevenLacs == <<"5", "-", "7", " ", "L", "a", "c", "s">>

\* the text parse_local_amount looks at, commas removed
CleanText == RemoveCommas(SalaryText(salary_str))

\* parse_local_amount has returned, having reached its multiplier step
MultiplierChosen == pc = "parsed" /\ multiplier # 0

HasCroreKeyword ==
    Contains(CleanText, <<"c", "r", "o", "r", "e">>) \/ Contains(CleanText, <<"c", "r">>)

HasLakhKeyword ==
    \/ Contains(CleanText, <<"l", "a", "c", "s">>)
    \/ Contains(CleanText, <<"l", "a", "k", "h">>)
    \/ Contains(CleanText, <<"l", "p", "a">>)

HasK == Contains(CleanText, <<"k", " ">>) \/ EndsWith(CleanText, <<"k">>)

\* the text names the unit: "crore", or "cr" with no letter on either side
HasCroreUnit ==
    \/ Contains(CleanText, <<"c", "r", "o", "r", "e">>)
    \/ \E i \in 1..(Len(CleanText) - 1) :
            /\ SubSeq(CleanText, i, i + 1) = <<"c", "r">>
            /\ i = 1 \/ ~IsLetter(CleanText[i - 1])
            /\ i + 1 = Len(CleanText) \/ ~IsLetter(CleanText[i + 2])

\* C25: the multiplier is 10,000,000 with a crore keyword, else 100,000 with
\* a lakh keyword, else 1,000 with a trailing or standalone "k", else 1, and a
\* text with a lakh keyword and no crore unit never gets the crore multiplier.
C25_MultiplierPriority ==
    MultiplierChosen =>
        /\ multiplier =
                IF HasCroreKeyword THEN 10000000
                ELSE IF HasLakhKeyword THEN 100000
                ELSE IF HasK THEN 1000
                ELSE 1
        /\ (HasLakhKeyword /\ ~HasCroreUnit) => multiplier # 10000000

\* the four ways to null of the claim, looked up in the input text
IsEmptySalary == salary_str = NaN \/ Strip(salary_str) = Empty
IsUndisclosed == \E x \in Undisclosed : Contains(SalaryText(salary_str), x)
HasNoNumber == FindNumbers(CleanText, 1) = <<>>
IsNoise ==
    /\ ~HasCroreKeyword /\ ~HasLakhKeyword /\ ~HasK
    /\ LessF(Average(FindNumbers(CleanText, 1)), Frac(100, 1))

C27_PkrRangeIsNull ==
    (pc = "parsed" /\ salary_str = PkrRange) => raw_amount = nan

\* C27, amended: parse_local_amount("50,000 - 70,000 PKR") finds no
\* multiplier keyword (multiplier 1), averages 50000 and 70000 to 60,000,
\* which is not below 100, and returns 60,000.
C27_PkrRangeIsItsAverage ==
    (pc = "parsed" /\ salary_str = PkrRange) =>
        multiplier = 1 /\ raw_amount = Frac(60000, 1)

C27_Witness ==
    /\ pc = "parsed"
    /\ salary_str = PkrRange
    /\ raw_amount # nan

\* 1 for the source/country whose salaries are yearly, 12 for the others
MonthsCounted ==
    IF metadata.source = "Naukri" \/ metadata.country = "India" THEN 1 ELSE 12

\* C28: get_salary_in_usd returns null when the salary is null or parses to
\* null or zero; otherwise the local amount times the country's rate, times
\* 12 except for Naukri/India, rounded to 2 decimals; (600000, India, Naukri)
\* gives 7200.00 and (60000, Pakistan, Rozee) gives 2592.00.
C28_SalaryInUsd ==
    pc = "converted" =>
        /\ IF salary_str = NaN \/ raw_amount = nan \/ raw_amount = Frac(0, 1)
           THEN usd = nan
           ELSE usd = Round2(MulF(MulF(raw_amount,
                                       ExchangeRate(metadata.country)),
                                  Frac(MonthsCounted, 1)))
        /\ (salary_str = <<"6", "0", "0", "0", "0", "0">> /\ metadata = FILE_METADATA[2]) =>
                usd = Frac(7200, 1)
        /\ (salary_str = <<"6", "0", "0", "0", "0">> /\ metadata = FILE_METADATA[3]) =>
                usd = Frac(2592, 1)

C28_Witness ==
    /\ pc = "converted"
    /\ salary_str = <<"6", "0", "0", "0", "0">>
    /\ metadata = FILE_METADATA[3]
    /\ usd = Frac(2592, 1)

(***************************************************************************)
(* merge.py, convert_and_merge: the Normalizer reads the master file of    *)
(* every FILE_METADATA entry and writes one canonical table.               *)
(***************************************************************************)
MaxRows == 2      \* rows in all master files together in SpecNormalize
MaxFiles == 2     \* master files that exist, readable or not
MaxYears == 2     \* years the clock passes through in one behaviour

FINAL_COLUMNS ==
    <<"Job ID", "Job Title", "Company Name", "Location", "Posted On",
      "Experience", "Education Requirements", "Skills Required",
      "Job Description", "Salary Range", "Additional Requirements",
      "Job Link", "Source", "Country">>

DUPLICATE_CHECK_COLUMNS ==
    <<"Job Title", "Company Name", "Posted On", "Location">>

Range(f) == {f[i] : i \in DOMAIN f}

\* the columns of the master file each scraper writes
MasterColumns(source) ==
    CASE source = "Naukri" ->
            {"Job ID", "Job Title", "Company Name", "Posted On", "Vacancies",
             "Location", "Salary Range", "Job Description", "Experience",
             "Skills Required", "Job Link"}
      [] source = "Rozee" ->
            {"Job ID", "Job Title", "Company Name", "Posted On", "City",
             "Experience Required", "Skills Required", "Job Type",
             "Min Salary", "Max Salary", "Job Description Snippet",
             "Job Link"}
      [] OTHER ->
            {"Job ID", "Job Title", "Company Name", "Posted On", "Deadline",
             "Vacancies", "Job Nature", "Workplace", "Location",
             "Salary Range", "Job Description", "Education Requirements",
             "Experience", "Additional Requirements", "Skills Required",
             "Company Address", "Apply Email", "Apply Instruction",
             "Job Link"}

\* the cells the model varies: two titles, three dates, two salaries
Filler == <<"x">>
Titles == {<<"D", "e", "v">>, <<"Q", "A">>}
FullDate == <<"2", "0", "2", "5", "-", "1", "2", "-", "2", "3">>
PartialDate == <<"D", "e", "c", " ", "2", "3">>
PostedTexts == {NaN, FullDate, PartialDate}
SalaryCells == {NaN, FiveToSevenLacs}
RowChoices == Titles \X PostedTexts \X SalaryCells

\* row k of the master file of FILE_METADATA[i]
MasterRow(i, k, choice) ==
    [c \in MasterColumns(FILE_METADATA[i].source) |->
        CASE c = "Job ID" -> <<DigitChars[i + 1], DigitChars[k + 1]>>
          [] c = "Job Title" -> choice[1]
          [] c = "Posted On" -> choice[2]
          [] c = "Salary Range" -> choice[3]
          [] c = "Min Salary" -> IF choice[3] = NaN THEN NaN ELSE <<"5", "0", "0", "0", "0">>
          [] c = "Max Salary" -> IF choice[3] = NaN THEN NaN ELSE <<"7", "0", "0", "0", "0">>
          [] OTHER -> Filler]

Files == 1..Len(FILE_METADATA)

\* os.path.exists(filename) is false
MissingFile == [state |-> "missing", rows |-> <<>>]
\* pd.read_excel(filename) raises
UnreadableFile == [state |-> "unreadable", rows |-> <<>>]
MasterTable(rows) == [state |-> "table", rows |-> rows]

RECURSIVE RowsOf(_, _, _, _, _)
\* the rows r..Len(file) that belong to file i, numbered from k
RowsOf(i, file, choice, r, k) ==
    IF r > Len(file) THEN <<>>
    ELSE IF file[r] = i
         THEN <<MasterRow(i, k, choice[r])>>
                  \o RowsOf(i, file, choice, r + 1, k + 1)
         ELSE RowsOf(i, file, choice, r + 1, k)

\* the master files of one moment: the unreadable ones, and the rows
\* file[r], choice[r] spread over the files that hold them
Datasets(unreadable, file, choice) ==
    [i \in Files |->
        IF i \in unreadable THEN UnreadableFile
        ELSE IF i \in Range(file)
             THEN MasterTable(RowsOf(i, file, choice, 1, 1))
             ELSE MissingFile]

\* std_df of one row with the columns the source lacks left out
StdRowNoFill(row, cols, meta) ==
    LET base == [c \in Range(FINAL_COLUMNS) \cap cols |-> row[c]]
        loc == IF "Location" \notin cols /\ "City" \in cols
               THEN ("Location" :> row["City"]) @@ base ELSE base
        desc == IF "Job Description" \notin cols
                    /\ "Job Description Snippet" \in cols
                THEN ("Job Description" :> row["Job Description Snippet"])
                         @@ loc
                ELSE loc
        exp == IF "Experience" \notin cols /\ "Experience Required" \in cols
               THEN ("Experience" :> row["Experience Required"]) @@ desc
               ELSE desc
        sal == IF "Salary Range" \notin cols /\ "Min Salary" \in cols
                    /\ "Max Salary" \in cols
               THEN ("Salary Range" :>
                        AsStr(row["Min Salary"]) \o <<" ", "-", " ">>
                            \o AsStr(row["Max Salary"])) @@ exp
               ELSE exp
    IN  ("Source" :> meta.source) @@ ("Country" :> meta.country) @@ sal

\* std_df of one row: the FINAL_COLUMNS of df, np.nan where df lacks one,
\* then the synonyms, then Source and Country
StdRow(row, cols, meta) ==
    LET base == [c \in Range(FINAL_COLUMNS) |->
                    IF c \in cols THEN row[c] ELSE NaN]
        loc == IF "Location" \notin cols /\ "City" \in cols
               THEN ("Location" :> row["City"]) @@ base ELSE base
        desc == IF "Job Description" \notin cols
                    /\ "Job Description Snippet" \in cols
                THEN ("Job Description" :> row["Job Description Snippet"])
                         @@ loc
                ELSE loc
        exp == IF "Experience" \notin cols /\ "Experience Required" \in cols
               THEN ("Experience" :> row["Experience Required"]) @@ desc
               ELSE desc
        sal == IF "Salary Range" \notin cols /\ "Min Salary" \in cols
                    /\ "Max Salary" \in cols
               THEN ("Salary Range" :>
                        AsStr(row["Min Salary"]) \o <<" ", "-", " ">>
                            \o AsStr(row["Max Salary"])) @@ exp
               ELSE exp
    IN  ("Source" :> meta.source) @@ ("Country" :> meta.country) @@ sal

\* the files of the loop that reach all_dfs.append(std_df)
Readable(d) == {i \in Files : d[i].state = "table"}

RECURSIVE Concatenated(_, _)
\* pd.concat(all_dfs, ignore_index=True), from file i on
Concatenated(d, i) ==
    IF i > Len(FILE_METADATA) THEN <<>>
    ELSE (IF i \in Readable(d)
          THEN [k \in 1..Len(d[i].rows) |->
                    StdRow(d[i].rows[k],
                           MasterColumns(FILE_METADATA[i].source),
                           FILE_METADATA[i])]
          ELSE <<>>) \o Concatenated(d, i + 1)

DuplicateKey(row) ==
    [i \in 1..Len(DUPLICATE_CHECK_COLUMNS) |-> row[DUPLICATE_CHECK_COLUMNS[i]]]

RECURSIVE Rows(_, _, _)
\* the rows of df whose index is in keep, in df's order, from row i on
Rows(df, keep, i) ==
    IF i > Len(df) THEN <<>>
    ELSE (IF i \in keep THEN <<df[i]>> ELSE <<>>) \o Rows(df, keep, i + 1)

\* drop_duplicates(subset=DUPLICATE_CHECK_COLUMNS, keep='last')
DropDuplicatesKeepLast(df) ==
    Rows(df,
         {i \in 1..Len(df) :
            ~ \E j \in (i + 1)..Len(df) :
                DuplicateKey(df[j]) = DuplicateKey(df[i])},
         1)

\* drop_duplicates(subset=DUPLICATE_CHECK_COLUMNS, keep='first'): a row
\* goes when a row before it has the same four cells
DropDuplicatesKeepFirst(df) ==
    Rows(df,
         {i \in 1..Len(df) :
            ~ \E j \in 1..(i - 1) :
                DuplicateKey(df[j]) = DuplicateKey(df[i])},
         1)

NaT == <<"NaT">>     \* pandas' missing timestamp

\* the year of the clock, as dateutil writes it into a date
YearText(day) == <<"2", "0", "2", DigitChars[5 + day]>>

\* clean_and_parse_date on the texts of the model: a blank text and "nan"
\* give NaT, a full date is itself, and a date without a year is not a
\* pandas timestamp (year 1), so dateutil's parse completes it from the
\* clock; any other text gives NaT
clean_and_parse_date(date_val, day) ==
    LET date_str == Strip(date_val)
    IN  IF date_str = Empty THEN NaT
        ELSE IF date_str = FullDate THEN FullDate
        ELSE IF date_str = PartialDate
             THEN YearText(day) \o <<"-", "1", "2", "-", "2", "3">>
        ELSE NaT

\* merged_df['Region']
Region(country) ==
    IF country \in {"Bangladesh", "India", "Pakistan"}
    THEN "South Asia" ELSE "South East Asia"

NotSpecified == <<"N", "o", "t", " ", "S", "p", "e", "c", "i", "f", "i", "e", "d">>

\* .astype(str).str.strip().replace(['nan', 'NaT', 'None'], 'Not Specified')
CleanTextColumn(v) ==
    LET s == Strip(AsStr(v))
    IN  IF s \in {<<"n", "a", "n">>, <<"N", "a", "T">>, <<"N", "o", "n", "e">>}
        THEN NotSpecified ELSE s

\* the steps of convert_and_merge after drop_duplicates, on one row
Finalized(row, day) ==
    LET dated == ("Posted On" :>
                     clean_and_parse_date(AsStr(row["Posted On"]), day)) @@ row
        cleaned == [c \in {"Job Title", "Company Name", "Location",
                           "Skills Required"} |-> CleanTextColumn(dated[c])]
                       @@ dated
    IN  ("Region" :> Region(row["Country"]))
            @@ ("Salary_USD_Annual" :>
                    get_salary_in_usd(row["Salary Range"], row["Country"],
                                      row["Source"]))
            @@ cleaned

\* the table convert_and_merge writes on a day
convert_and_merge(d, day) ==
    LET kept == DropDuplicatesKeepFirst(Concatenated(d, 1))
    IN  [k \in 1..Len(kept) |-> Finalized(kept[k], day)]

(***************************************************************************)
(* SpecNormalize: merge.py run up to twice on the same master files,       *)
(* while the clock may pass into the next year.                            *)
(***************************************************************************)
InitNormalize ==
    /\ pc = "normalizer"
    /\ \E n \in 0..MaxRows :
        \E file \in [1..n -> Files], choice \in [1..n -> RowChoices] :
            \E unreadable \in {u \in SUBSET Files : Cardinality(u) <= 1} :
                /\ \A r \in 1..(n - 1) : file[r] <= file[r + 1]
                /\ unreadable \cap Range(file) = {}
                /\ Cardinality(unreadable \cup Range(file)) <= MaxFiles
                /\ datasets = Datasets(unreadable, file, choice)
    /\ today = 1
    /\ merged_df = <<>>
    /\ earlier_df = <<>>
    /\ trail = <<>>
    /\ reporter = "idle"
    /\ summaries = <<>>
    /\ reports = <<>>
    /\ column = "none"
    /\ new_value = [kind |-> "none", items |-> <<>>, text |-> <<>>]
    /\ stored = [kind |-> "none", items |-> <<>>, text |-> <<>>]
    /\ salary_str = NaN
    /\ metadata = [source |-> "none", country |-> "none"]
    /\ multiplier = 0
    /\ raw_amount = nan
    /\ usd = nan
    /\ ScrapersIdle

normalizerIdle ==
    <<master, summaryFile, src, existing_ids, existing_count, issues, page,
      total_pages, found, seen, new_ids, todo, scraped_data, failed, ret,
      summary, saveCalls, before, harvested, saved, writer, answer, backup>>

\* one run of merge.py: pd.concat raises when no file was read
ConvertAndMerge ==
    /\ pc = "normalizer"
    /\ runs < MaxRuns
    /\ runs' = runs + 1
    /\ IF Readable(datasets) = {}
       THEN /\ exc' = "concat"
            /\ UNCHANGED <<merged_df, earlier_df>>
       ELSE /\ exc' = "none"
            /\ earlier_df' = merged_df
            /\ merged_df' = convert_and_merge(datasets, today)
    /\ UNCHANGED <<pc, datasets, today>>
    /\ UNCHANGED salaryVars
    /\ UNCHANGED flattenVars
    /\ UNCHANGED <<rozeeVars, reportVars>>
    /\ UNCHANGED normalizerIdle

\* the clock passes into the next year
NewYear ==
    /\ pc = "normalizer"
    /\ today < MaxYears
    /\ today' = today + 1
    /\ UNCHANGED <<pc, datasets, merged_df, earlier_df, runs, exc>>
    /\ UNCHANGED salaryVars
    /\ UNCHANGED flattenVars
    /\ UNCHANGED <<rozeeVars, reportVars>>
    /\ UNCHANGED normalizerIdle

NextNormalize == ConvertAndMerge \/ NewYear

SpecNormalize == InitNormalize /\ [][NextNormalize]_vars

\* the rows of all the files that were read, before drop_duplicates
AllRows == Concatenated(datasets, 1)

\* the rows of AllRows no earlier row collides with on the four cells
FirstOccurrences ==
    {i \in 1..Len(AllRows) :
        \A j \in 1..(i - 1) :
            \E c \in Range(DUPLICATE_CHECK_COLUMNS) :
                AllRows[j][c] # AllRows[i][c]}

\* a run of merge.py has written its table
Normalized == pc = "normalizer" /\ runs >= 1 /\ exc = "none"

\* C23: after the per-source tables are concatenated in FILE_METADATA order,
\* of the rows that collide on (Job Title, Company Name, Posted On,
\* Location) exactly the first one is in the canonical table, and every row
\* that collides with none is in it; the rows keep their order.
C23_FirstOccurrenceIsKept ==
    Normalized =>
        /\ Len(merged_df) = Cardinality(FirstOccurrences)
        /\ \A i \in 1..Len(AllRows) :
            (i \in FirstOccurrences) <=>
                \E k \in 1..Len(merged_df) :
                    /\ merged_df[k]["Job ID"] = AllRows[i]["Job ID"]
                    /\ merged_df[k]["Source"] = AllRows[i]["Source"]
                    /\ k = Cardinality({j \in FirstOccurrences : j <= i})

\* two rows of two files collided and the later one was dropped
C23_Witness ==
    /\ Normalized
    /\ Len(AllRows) = 2
    /\ AllRows[1]["Source"] # AllRows[2]["Source"]
    /\ Len(merged_df) = 1
    /\ merged_df[1]["Job ID"] = AllRows[1]["Job ID"]

\* the columns a master file can supply a canonical field from
Synonyms(field) ==
    CASE field = "Location" -> {"Location", "City"}
      [] field = "Job Description" ->
            {"Job Description", "Job Description Snippet"}
      [] field = "Experience" -> {"Experience", "Experience Required"}
      [] field = "Salary Range" -> {"Salary Range", "Min Salary", "Max Salary"}
      [] OTHER -> {field}

\* the canonical fields a source has under no name
Lacking(source) ==
    {c \in Range(FINAL_COLUMNS) \ {"Source", "Country"} :
        Synonyms(c) \cap MasterColumns(source) = {}}

\* C24: every row of the canonical table has exactly the 14 FINAL_COLUMNS,
\* the region and the annualised USD salary, whatever its source; a field
\* the source has under no canonical name and no synonym is there with a
\* null-equivalent value.
C24_FixedFieldSet ==
    Normalized =>
        \A k \in 1..Len(merged_df) :
            /\ DOMAIN merged_df[k] =
                    Range(FINAL_COLUMNS) \cup {"Region", "Salary_USD_Annual"}
            /\ \A c \in Lacking(merged_df[k]["Source"]) :
                    merged_df[k][c] \in {NaN, NotSpecified}

\* a Rozee row and a BDJobs row in one table: the first lacks two fields
C24_Witness ==
    /\ Normalized
    /\ Len(merged_df) = 2
    /\ merged_df[1]["Source"] = "BDJobs"
    /\ merged_df[2]["Source"] = "Rozee"
    /\ Lacking("Rozee") = {"Education Requirements", "Additional Requirements"}
    /\ merged_df[2]["Education Requirements"] = NaN
    /\ merged_df[2]["Location"] = Filler
    /\ merged_df[1]["Education Requirements"] = Filler

\* C29: running convert_and_merge twice on the same unchanged master files
\* writes the same canonical table both times, parsed dates included.
C29_RerunWritesTheSameTable ==
    (Normalized /\ runs = 2) => merged_df = earlier_df

\* as C29, for master files whose dates all carry their year
C29_FullDatesOnly ==
    (Normalized /\ runs = 2
        /\ \A i \in 1..Len(AllRows) : AllRows[i]["Posted On"] # PartialDate)
    => merged_df = earlier_df

(***************************************************************************)
(* save_to_master of JobStreet and BDJobs: what becomes of one value of a  *)
(* new record on its way into a cell of the master file.  Lengths are      *)
(* scaled: the ceiling of 32750 characters is EXCEL_CHAR_LIMIT, and the    *)
(* 32767 characters a worksheet cell holds are EXCEL_CHAR_LIMIT + 17.      *)
(***************************************************************************)
EXCEL_CHAR_LIMIT == 20

truncation_suffix == <<".", ".", ".", " ", "[", "T", "R", "U", "N", "C", "A", "T", "E", "D", "]">>

\* openpyxl keeps the first 32767 characters of a cell's string
CellMax == EXCEL_CHAR_LIMIT + 17

\* a text of n characters, each telling its position
Text(n) == [p \in 1..n |-> DigitChars[(p % 10) + 1]]

ListValue(items) == [kind |-> "list", items |-> items, text |-> <<>>]
StrValue(text) == [kind |-> "str", items |-> <<>>, text |-> text]
NoneValue == [kind |-> "none", items |-> <<>>, text |-> <<>>]

list_columns ==
    {"Job Description", "Education Requirements", "Experience",
     "Additional Requirements", "Skills Required"}

text_columns_to_truncate == list_columns \cup {"Apply Instruction"}

\* the columns of a new record the model follows: a list column, a text
\* column save_to_master of JobStreet truncates, and one it does not
FlattenColumns == {"Job Description", "Apply Instruction", "Company Address"}

\* the lengths of the items and texts of the model, around the ceiling
\* and around the size of a cell
TextLengths ==
    {0, 1, EXCEL_CHAR_LIMIT - 2, EXCEL_CHAR_LIMIT, EXCEL_CHAR_LIMIT + 1,
     CellMax, CellMax + 1}

\* the values a new record can hold in a column
NewValues(col) ==
    IF col \in list_columns
    THEN {NoneValue}
            \cup {ListValue(<<>>)}
            \cup {ListValue(<<Text(a)>>) : a \in TextLengths}
            \cup {ListValue(<<Text(a), Text(b)>>) :
                    a \in TextLengths, b \in TextLengths}
    ELSE {NoneValue} \cup {StrValue(Text(a)) : a \in TextLengths}

RECURSIVE Join(_, _)
\* delimiter.join(items)
Join(delimiter, items) ==
    IF items = <<>> THEN <<>>
    ELSE IF Len(items) = 1 THEN items[1]
    ELSE items[1] \o delimiter \o Join(delimiter, Tail(items))

\* lambda x: "; ".join(x) if isinstance(x, list) else x
Flatten(x) ==
    IF x.kind = "list" THEN StrValue(Join(<<";", " ">>, x.items)) ELSE x

\* lambda x: (x[:EXCEL_CHAR_LIMIT - len(truncation_suffix)]
\*            + truncation_suffix)
\*           if isinstance(x, str) and len(x) > EXCEL_CHAR_LIMIT else x
TruncateCell(x) ==
    IF x.kind = "str" /\ Len(x.text) > EXCEL_CHAR_LIMIT
    THEN StrValue(SubSeq(x.text, 1,
                         EXCEL_CHAR_LIMIT - Len(truncation_suffix))
                      \o truncation_suffix)
    ELSE x

\* to_excel: a string cell keeps its first CellMax characters
ToExcel(x) ==
    IF x.kind = "str"
    THEN StrValue(SubSeq(x.text, 1, Min(Len(x.text), CellMax)))
    ELSE x

(***************************************************************************)
(* SpecFlatten: one value of one new record goes through save_to_master.   *)
(***************************************************************************)
InitFlatten ==
    /\ pc = "flatten"
    /\ column \in FlattenColumns
    /\ new_value \in NewValues(column)
    /\ stored = NoneValue
    /\ salary_str = NaN
    /\ metadata = [source |-> "none", country |-> "none"]
    /\ multiplier = 0
    /\ raw_amount = nan
    /\ usd = nan
    /\ datasets = <<>>
    /\ today = 1
    /\ merged_df = <<>>
    /\ earlier_df = <<>>
    /\ trail = <<>>
    /\ reporter = "idle"
    /\ summaries = <<>>
    /\ reports = <<>>
    /\ master = [s \in Sources |-> NoFile]
    /\ summaryFile = [p \in SummaryPaths |-> NoSummaryFile]
    /\ src \in {"JobStreet", "BDJobs"}
    /\ runs = 0
    /\ scraped_data = <<>>
    /\ ret = 0
    /\ before = NoFile
    /\ Quiet

flattenIdle ==
    <<master, summaryFile, src, runs, existing_ids, existing_count, issues,
      page, total_pages, found, seen, new_ids, todo, scraped_data, failed, ret,
      summary, saveCalls, before, harvested, saved, exc, writer, answer,
      backup>>

\* JobStreet_SG.py, save_to_master: join, truncate, write
SaveJobStreet ==
    /\ pc = "flatten"
    /\ src = "JobStreet"
    /\ LET joined == IF column \in list_columns
                     THEN Flatten(new_value) ELSE new_value
           cut == IF column \in text_columns_to_truncate
                  THEN TruncateCell(joined) ELSE joined
       IN  stored' = ToExcel(cut)
    /\ pc' = "stored"
    /\ UNCHANGED <<column, new_value>>
    /\ UNCHANGED <<salaryVars, normalizerVars>>
    /\ UNCHANGED <<rozeeVars, reportVars>>
    /\ UNCHANGED flattenIdle

\* BDjobsMaster.py, save_to_master: join, write
SaveBDJobs ==
    /\ pc = "flatten"
    /\ src = "BDJobs"
    /\ LET joined == IF column \in list_columns
                     THEN Flatten(new_value) ELSE new_value
       IN  stored' = ToExcel(joined)
    /\ pc' = "stored"
    /\ UNCHANGED <<column, new_value>>
    /\ UNCHANGED <<salaryVars, normalizerVars>>
    /\ UNCHANGED <<rozeeVars, reportVars>>
    /\ UNCHANGED flattenIdle

NextFlatten == SaveJobStreet \/ SaveBDJobs

SpecFlatten == InitFlatten /\ [][NextFlatten]_vars

\* the new value as one string: the items of a list joined by "; "
Flat == Flatten(new_value)

\* C30: when a merge persists a new record (JobStreet, BDJobs), a
\* multi-valued field is stored as its items joined by "; ", and no stored
\* text exceeds the character ceiling: a value longer than the ceiling is
\* stored as a prefix of it followed by the truncation marker, at most the
\* ceiling long, and a value within the ceiling is stored unchanged.
C30_FlattenedAndCapped ==
    (pc = "stored" /\ Flat.kind = "str") =>
        /\ stored.kind = "str"
        /\ Len(stored.text) <= EXCEL_CHAR_LIMIT
        /\ IF Len(Flat.text) <= EXCEL_CHAR_LIMIT
           THEN stored.text = Flat.text
           ELSE \E n \in 0..EXCEL_CHAR_LIMIT :
                    stored.text = SubSeq(Flat.text, 1, n) \o truncation_suffix

\* as C30, for the six columns save_to_master of JobStreet truncates
C30_JobStreetTruncatedColumns ==
    (pc = "stored" /\ Flat.kind = "str" /\ src = "JobStreet"
        /\ column \in text_columns_to_truncate) =>
        /\ stored.kind = "str"
        /\ Len(stored.text) <= EXCEL_CHAR_LIMIT
        /\ IF Len(Flat.text) <= EXCEL_CHAR_LIMIT
           THEN stored.text = Flat.text
           ELSE \E n \in 0..EXCEL_CHAR_LIMIT :
                    stored.text = SubSeq(Flat.text, 1, n) \o truncation_suffix

(***************************************************************************)
(* SpecRozee: one call of collect_new_rozee_jobs, followed page by page    *)
(* over a listing long enough for six pages to fail to parse.              *)
(***************************************************************************)
MaxListing == 7   \* the pages the Rozee listing answers before it ends

\* what page p of the listing can answer: a request that fails, a page that
\* does not parse, a page of another shape, a page with no job, and pages
\* with one job or two
RozeeAnswers(p) ==
    IF p > MaxListing
    THEN {[kind |-> "ok", ids |-> {}, total |-> 0]}
    ELSE {[kind |-> k, ids |-> {}, total |-> 0] :
            k \in {"fail", "noparse", "bad"}}
         \cup {[kind |-> "ok", ids |-> I, total |-> 0] :
                 I \in {{}, {<<"1">>}, {<<"1">>, <<"2">>}}}

InitRozee ==
    /\ pc = "collecting"
    /\ src = "Rozee"
    /\ existing_ids \in SUBSET {<<"1">>}
    /\ existing_count = Cardinality(existing_ids)
    /\ page = 1
    /\ master = [s \in Sources |-> NoFile]
    /\ summaryFile = [p \in SummaryPaths |-> NoSummaryFile]
    /\ runs = 1
    /\ scraped_data = <<>>
    /\ ret = 0
    /\ before = NoFile
    /\ writer = [s \in Sources |-> NotSaving]
    /\ answer = "none"
    /\ backup = "none"
    /\ issues = <<>>
    /\ total_pages = 0
    /\ found = {}
    /\ seen = {}
    /\ new_ids = {}
    /\ todo = {}
    /\ failed = 0
    /\ summary = NoSummary
    /\ saveCalls = 0
    /\ harvested = FALSE
    /\ saved = "no"
    /\ exc = "none"
    /\ NoTables

\* one iteration of the while loop of collect_new_rozee_jobs
CollectPage ==
    /\ pc = "collecting"
    /\ \E o \in RozeeAnswers(page) :
        \E h \in RozeePage(
                    [StartHarvest(issues) EXCEPT
                        !.found = found, !.seen = seen, !.page = page,
                        !.rows = [i \in 1..Len(scraped_data) |->
                                    scraped_data[i].id]],
                    existing_ids, o) :
            /\ found' = h.found
            /\ seen' = h.seen
            /\ issues' = h.issues
            /\ page' = h.page
            /\ scraped_data' =
                [i \in 1..Len(h.rows) |->
                    [id |-> h.rows[i], val |-> Fetched(runs, i)]]
            /\ new_ids' = h.result
            /\ answer' = o.kind
            /\ trail' = Append(trail, o.kind)
            /\ harvested' = (h.state = "return")
            /\ pc' = CASE h.state = "more" -> "collecting"
                       [] h.state = "return" -> "collected"
                       [] h.state = "raise" -> "raised"
            /\ exc' = IF h.state = "raise" THEN "listing" ELSE exc
    /\ UNCHANGED <<writer, backup, total_pages>>
    /\ UNCHANGED <<salaryVars, normalizerVars, flattenVars, reportVars>>
    /\ UNCHANGED <<master, summaryFile, src, runs, existing_ids, existing_count,
                   todo, failed, ret, summary, saveCalls, before, saved>>

NextRozee == CollectPage

SpecRozee == InitRozee /\ [][NextRozee]_vars

\* the collection was stopped because of page parse failures
StoppedForParseFailures ==
    /\ pc = "collected"
    /\ issues # <<>>
    /\ issues[Len(issues)] = "stop"

\* the number of pages that failed to parse in a row, up to the last page
RECURSIVE FailedInARow(_)
FailedInARow(answers) ==
    IF answers = <<>> \/ answers[Len(answers)] # "noparse" THEN 0
    ELSE 1 + FailedInARow(SubSeq(answers, 1, Len(answers) - 1))

\* C31: collect_new_rozee_jobs stops because of page parse failures only
\* after more than five consecutive pages failed to parse; parse failures
\* separated by parsed pages never stop it, and until the stop every failed
\* page is skipped and the next page is tried.
C31_StopsAfterSixFailuresInARow ==
    /\ StoppedForParseFailures => FailedInARow(trail) > 5
    /\ (pc = "collecting" /\ answer = "noparse") => page = Len(trail) + 1

\* the stop comes with the sixth page of the call that failed to parse,
\* wherever the other five lie
C31_StopsAtSixthFailure ==
    /\ StoppedForParseFailures <=>
            /\ pc = "collected"
            /\ answer = "noparse"
            /\ Cardinality({i \in 1..Len(trail) : trail[i] = "noparse"}) = 6
    /\ (pc = "collecting" /\ answer = "noparse") => page = Len(trail) + 1

(***************************************************************************)
(* send_summary_email.py, main: the reporter loads the summary file,       *)
(* renders one report and removes the file, while the scripts store their  *)
(* outcomes.                                                               *)
(***************************************************************************)
MaxReports == 2   \* reports rendered in one behaviour of SpecReport

\* SUMMARY_FILE of send_summary_email.py
ReporterFile == "JobData"

scraper_order ==
    <<"BDJobs", "Noukri.com", "Rozee.pk", "JobStreet (SG)", "JobStreet (PH)",
      "JobStreet (ID)">>

\* the row of data_list and the issues the reporter renders for one name
ReportRow(name, loaded) ==
    IF name \in DOMAIN loaded
    THEN [Status |-> loaded[name].status,
          Existing |-> loaded[name].existing_jobs,
          Added |-> loaded[name].newly_added,
          Total |-> loaded[name].new_total,
          Issues |-> loaded[name].issues]
    ELSE [Status |-> "Skipped", Existing |-> 0, Added |-> 0, Total |-> 0,
          Issues |-> <<>>]

\* data_list and all_issues
Rendered(loaded) ==
    [name \in Range(scraper_order) |-> ReportRow(name, loaded)]

\* the reporter is not inside main
ReporterOut == {"idle", "returned", "done"}

InitReport ==
    /\ pc = "report"
    /\ master = [s \in Sources |-> NoFile]
    /\ summaryFile = [p \in SummaryPaths |-> NoSummaryFile]
    /\ src = "JobStreet"
    /\ runs = 0
    /\ scraped_data = <<>>
    /\ ret = 0
    /\ before = NoFile
    /\ Quiet
    /\ NoTables

reportIdle ==
    <<pc, master, src, runs, existing_ids, existing_count, issues, page,
      total_pages, found, seen, new_ids, todo, scraped_data, failed, ret,
      summary, before, harvested, saved, exc, writer, answer, backup>>

\* a script ends a run and calls save_run_summary with its outcome
StoreOutcome ==
    /\ saveCalls < MaxSaves
    /\ \E s \in Sources, w \in WriteOutcomes :
        summaryFile' =
            [summaryFile EXCEPT ![SUMMARY_FILE(s)] =
                SaveRunSummaryFile(s, @,
                    Summary("Completed", 0, saveCalls + 1, saveCalls + 1,
                            <<>>), w)]
    /\ saveCalls' = saveCalls + 1
    /\ UNCHANGED <<salaryVars, normalizerVars, flattenVars, rozeeVars>>
    /\ UNCHANGED reportVars
    /\ UNCHANGED reportIdle

\* main up to json.load: no file, or a file that does not decode, and main
\* returns; otherwise summaries is the mapping of the file
ReportLoad ==
    /\ reporter \in ReporterOut
    /\ Len(reports) < MaxReports
    /\ LET f == summaryFile[ReporterFile]
       IN  IF f.exists /\ f.valid
           THEN /\ summaries' = f.map
                /\ reporter' = "loaded"
           ELSE /\ summaries' = <<>>
                /\ reporter' = "returned"
    /\ UNCHANGED <<reports, summaryFile, saveCalls>>
    /\ UNCHANGED <<salaryVars, normalizerVars, flattenVars, rozeeVars>>
    /\ UNCHANGED reportIdle

\* the loop over scraper_order, the charts, the page and send_email
ReportRender ==
    /\ reporter = "loaded"
    /\ reports' = Append(reports, Rendered(summaries))
    /\ reporter' = "rendered"
    /\ UNCHANGED <<summaries, summaryFile, saveCalls>>
    /\ UNCHANGED <<salaryVars, normalizerVars, flattenVars, rozeeVars>>
    /\ UNCHANGED reportIdle

\* try: os.remove(SUMMARY_FILE) / except: pass
ReportRemove ==
    /\ reporter = "rendered"
    /\ \E removed \in BOOLEAN :
        summaryFile' =
            IF removed
            THEN [summaryFile EXCEPT ![ReporterFile] = NoSummaryFile]
            ELSE summaryFile
    /\ reporter' = "done"
    /\ UNCHANGED <<summaries, reports, saveCalls>>
    /\ UNCHANGED <<salaryVars, normalizerVars, flattenVars, rozeeVars>>
    /\ UNCHANGED reportIdle

NextReport == StoreOutcome \/ ReportLoad \/ ReportRender \/ ReportRemove

SpecReport == InitReport /\ [][NextReport]_vars

\* a step that ends a run of the reporter
ReportEnds == reporter' # reporter /\ reporter' \in {"returned", "done"}

\* the run that ends found the summary file
FoundStore ==
    \/ reporter = "rendered"
    \/ reporter \in ReporterOut /\ summaryFile[ReporterFile].exists

\* every outcome of the file is in the report rendered last
StoreIsRendered ==
    /\ reports # <<>>
    /\ \A name \in DOMAIN summaryFile[ReporterFile].map :
        /\ name \in Range(scraper_order)
        /\ reports[Len(reports)][name] =
                ReportRow(name, summaryFile[ReporterFile].map)

\* a run of the reporter that found the file ends with the file gone
GoneAtTheEnd ==
    (ReportEnds /\ FoundStore) => ~ summaryFile'[ReporterFile].exists

\* the file goes only with outcomes that are all in the report
RemovedWhenRendered ==
    (summaryFile[ReporterFile].exists /\ ~ summaryFile'[ReporterFile].exists)
        => StoreIsRendered

\* C32: whenever the reporter runs while the summary file exists, the file
\* is gone at the end of that run, and the outcomes that go with it are in
\* the report the run rendered.
C32_ReportConsumesTheStore ==
    [][/\ GoneAtTheEnd
       /\ RemovedWhenRendered]_vars

\* the reporter removes the file only at the end of a run that loaded it and
\* rendered what it loaded
C32_RemovesAfterRendering ==
    [][(summaryFile[ReporterFile].exists /\ ~ summaryFile'[ReporterFile].exists)
            => /\ reporter = "rendered"
               /\ reporter' = "done"
               /\ reports # <<>>
               /\ reports[Len(reports)] = Rendered(summaries)]_vars

\* C33: the four pipelines and the reporter address one and the same summary
\* file: every outcome a script has stored is an entry of the mapping the
\* reporter reads, under a name the reporter looks up.
C33_OneSharedStore ==
    \A p \in SummaryPaths :
        \A name \in DOMAIN summaryFile[p].map :
            /\ p = ReporterFile
            /\ name \in Range(scraper_order)

\* every stored outcome is under a name the reporter looks up, and those of
\* Rozee and JobStreet are in the file the reporter reads
C33_NamesAndJobDataScripts ==
    \A p \in SummaryPaths :
        \A name \in DOMAIN summaryFile[p].map :
            /\ name \in Range(scraper_order)
            /\ name \in {DisplayName("Rozee"), DisplayName("JobStreet")}
                    => p = ReporterFile

(***************************************************************************)
(* The counts of a run that persisted its records (Spec).                  *)
(***************************************************************************)
\* the run ended with status Completed or CompletedWithIssues
EndedCompleted ==
    /\ RunEnded
    /\ summary.status \in Completed \cup CompletedWithIssues

\* C34: for every source, a run that ends with status Completed or
\* CompletedWithIssues reports new_total = existing_count + newly_added,
\* where new_total is the row count of the master file after the merge.
C34_TotalIsExistingPlusAdded ==
    EndedCompleted =>
        /\ HasCounts
        /\ summary.existing_jobs = existing_count
        /\ summary.new_total = Len(master[src].rows)
        /\ summary.new_total = summary.existing_jobs + summary.newly_added

(***************************************************************************)
(* The master file over a sequence of merges (SpecMerge).                  *)
(***************************************************************************)
\* the Job IDs a master file holds, in normalised form
MasterKeys(file) ==
    IF file.exists /\ file.ok
    THEN {CleanId(c) : c \in RowIds(ReadRows(file))}
    ELSE {}

\* the rows a master file holds
MasterCount(file) == IF file.exists /\ file.ok THEN Len(file.rows) ELSE 0

\* the step is a save_to_master call as main makes it, with records
MergesRecords == runs' = runs + 1 /\ scraped_data' # <<>>

\* a merge keeps every Job ID the master file held
KeysOnlyGrow == MasterKeys(master[src]) \subseteq MasterKeys(master'[src])

\* a merge that reports its total reports no less than the rows before it
TotalNeverShrinks == ret' # -1 => ret' >= MasterCount(master[src])

\* C35: across any sequence of merges of one source, the key set of the
\* master file only grows: every Job ID present before a merge is present
\* after it (in normalised form), and the new_total a merge returns is never
\* smaller than the row count before it.
C35_MasterOnlyGrows ==
    [][MergesRecords => (KeysOnlyGrow /\ TotalNeverShrinks)]_vars

\* as C35, for the merges that did not fail
C35_SavedMergeKeepsKeys ==
    [][(MergesRecords /\ ret' # -1 /\ pc' = "merge") => KeysOnlyGrow]_vars

\* the Job IDs that stand for no identifier: "", "None" and "nan"
NoIdentifier ==
    {Empty, <<"N", "o", "n", "e">>, <<"n", "a", "n">>}

\* C36: no source's merge ever persists a row whose Job ID is empty or
\* derived from a missing value ("", "None", "nan").
C36_NoRowWithoutIdentifier ==
    \A s \in Sources :
        (master[s].exists /\ master[s].ok) =>
            \A i \in 1..Len(master[s].rows) :
                CleanId(master[s].rows[i].id) \notin NoIdentifier

\* as C36, for JobStreet and the empty Job ID, which its merge drops
C36_JobStreetDropsEmptyIds ==
    (master["JobStreet"].exists /\ master["JobStreet"].ok) =>
        \A i \in 1..Len(master["JobStreet"].rows) :
            CleanId(master["JobStreet"].rows[i].id) \notin NoIdentifier

\* the statuses of a run that persisted nothing
NothingPersisted == SaveFailed \cup Failed \cup NoNewJobs \cup Crashed

\* C37: for every source, an outcome reports newly_added > 0 only when the
\* new records were persisted: whenever the status is SaveFailed, Failed,
\* NoNewJobs or Crashed, newly_added = 0.
C37_AddedOnlyWhenPersisted ==
    (RunEnded /\ "newly_added" \in DOMAIN summary) =>
        /\ summary.newly_added > 0 => saved = "ok"
        /\ summary.status \in NothingPersisted => summary.newly_added = 0

\* as C37, for BDJobs, Rozee and JobStreet
C37_ThreeSourcesAddedOnlyWhenPersisted ==
    (RunEnded /\ "newly_added" \in DOMAIN summary /\ src # "Naukri") =>
        /\ summary.newly_added > 0 => saved = "ok"
        /\ summary.status \in NothingPersisted => summary.newly_added = 0

\* the rows of the master file that carry the Job ID of the batch row i
RowOf(i) ==
    {n \in 1..Len(master[src].rows) :
        MergeKey(src, master[src].rows[n].id) = MergeKey(src, scraped_data[i].id)}

\* the batch row i is a row of the master file, with its values
IsPersisted(i) ==
    /\ Persisted
    /\ \E n \in RowOf(i) : master[src].rows[n].val = scraped_data[i].val

\* C38: for every source, after a run that ends with status Completed or
\* CompletedWithIssues, every record fetched in that run is a row of the
\* persisted master file under its own Job ID (in normalised form), with the
\* values fetched in that run.
C38_FetchedRecordsArePersisted ==
    EndedCompleted => \A i \in 1..Len(scraped_data) : IsPersisted(i)

\* as C38, for the last record fetched under each Job ID, the empty Job ID of
\* JobStreet apart
C38_LastFetchedIsPersisted ==
    (EndedCompleted /\ saved = "ok") =>
        \A i \in 1..Len(scraped_data) :
            (/\ \A m \in (i + 1)..Len(scraped_data) :
                   MergeKey(src, scraped_data[m].id) # MergeKey(src, scraped_data[i].id)
             /\ ~(src = "JobStreet" /\ CleanId(scraped_data[i].id) = Empty)) =>
                \E n \in 1..Len(master[src].rows) :
                    /\ master[src].rows[n].id = MergeKey(src, scraped_data[i].id)
                    /\ master[src].rows[n].val = scraped_data[i].val

(***************************************************************************)
(* The canonical table as written (SpecNormalize).                         *)
(***************************************************************************)
\* the rows i and k of the canonical table agree on the four cells
SameOutputKey(i, k) ==
    \A c \in Range(DUPLICATE_CHECK_COLUMNS) : merged_df[i][c] = merged_df[k][c]

\* C39: in the canonical table the Normalizer writes no two rows have the
\* same (Job Title, Company Name, Posted On, Location) as the table shows
\* them, the dates parsed and the text columns cleaned.
C39_NoTwoRowsAlikeInOutput ==
    Normalized =>
        \A i, k \in 1..Len(merged_df) : SameOutputKey(i, k) => i = k

\* as C39, for the cells as the master files hold them: the rows kept differ
\* pairwise on the four cells before the dates are parsed
C39_KeptRowsDifferBeforeCleanup ==
    Normalized =>
        \A i, k \in FirstOccurrences :
            (\A c \in Range(DUPLICATE_CHECK_COLUMNS) : AllRows[i][c] = AllRows[k][c])
                => i = k

====
